---------------------------- MODULE Spec2Model ----------------------------
(***************************************************************************)
(* Session archive (ZIP export / import) and browser session library of   *)
(* the AI-teacher front end.                                               *)
(*                                                                         *)
(* Strings the code inspects character by character (topics, names, ids,   *)
(* descriptions, archive paths) are sequences of one-character strings.    *)
(* Strings the code only copies (SVG markup, HTML, explanations, chat      *)
(* text) are opaque TLA+ strings.                                          *)
(***************************************************************************)
EXTENDS Integers, Sequences, FiniteSets, TLC

VARIABLES
    now,            \* Date.now(), the wall clock in ms
    sessions,       \* sessions handed to the ZIP export
    exportKind,     \* which export produced the archive: "none" | "single" | "collection"
    archive,        \* the File handed to the import: [name, isZip, files]
    results,        \* what importLibraryFromZip returned: [thrown, sessions]
    phase,          \* position of the export/import pipeline
    damage,         \* edits made to the archive between export and import
    store,          \* localStorage: [index, data], data a set of [id, json]
    savedSessions,  \* SessionManager state: the library index as rendered
    error,          \* SessionManager state: the error line shown to the user
    isProcessing,   \* SessionManager state: import/export in progress
    isOpen,         \* App state: the Session Library modal is shown
    saveName,       \* SessionManager state: "Session Name..." input
    saveGroup,      \* SessionManager state: "Folder Name (Optional)" input
    current,        \* App state handed to SessionManager: whiteboards, chat, playgrounds, theme, model
    importTask,     \* the suspended handleFileChange: [pc, file, closure]
    lastOp,         \* the handler that ran last, with its argument and outcome
    saveToLocal,    \* App state: the Storage toggle of the settings
    pending,        \* the App's suspended async handlers: [send, refine, generatingTest, builds]
    crashed,        \* an effect threw: React has unmounted the App
    autoSave        \* App state, refs and interval timers of the auto-save

vars == <<now, sessions, exportKind, archive, results, phase, damage, store, savedSessions,
          error, isProcessing, isOpen, saveName, saveGroup, current, importTask, lastOp,
          saveToLocal, pending, crashed, autoSave>>

zipVars == <<sessions, exportKind, archive, results, phase, damage>>
libVars == <<store, savedSessions, error, isProcessing, isOpen, saveName, saveGroup,
             current, importTask, lastOp>>
appVars == <<saveToLocal, pending, crashed, autoSave>>

-----------------------------------------------------------------------------
(* Bounds of the model *)

MaxWb == 2          \* whiteboards per exported session
MaxPg == 1          \* playgrounds per exported session
MaxSessions == 2    \* sessions per exported collection
MaxDamage == 2      \* edits made to an archive before it is imported
StoreCap == 3       \* localStorage quota, in units (one per payload, one per index entry)
MaxIndex == 3       \* entries of a stored library index that is displayed
MaxRand == 2        \* distinct outcomes of Math.random() in an id

-----------------------------------------------------------------------------
(* Characters and strings *)

Letters == {"a","b","c","d","e","f","g","h","i","j","k","l","m","n","o","p","q",
            "r","s","t","u","v","w","x","y","z",
            "A","L","T","P","Q","U","Z"}
Digits  == {"0","1","2","3","4","5","6","7","8","9"}

\* String.prototype.toLowerCase, one character
ToLowerChar(c) ==
    CASE c = "A" -> "a"
      [] c = "L" -> "l"
      [] c = "T" -> "t"
      [] c = "P" -> "p"
      [] c = "Q" -> "q"
      [] c = "U" -> "u"
      [] c = "Z" -> "z"
      [] OTHER -> c

toLowerCase(s) == [i \in 1..Len(s) |-> ToLowerChar(s[i])]

Min(a, b) == IF a < b THEN a ELSE b

\* s.substring(0, n)
substring0(s, n) == SubSeq(s, 1, Min(n, Len(s)))

\* s.startsWith(p)
startsWith(s, p) == Len(p) <= Len(s) /\ SubSeq(s, 1, Len(p)) = p

\* s.endsWith(p)
endsWith(s, p) == Len(p) <= Len(s) /\ SubSeq(s, Len(s) - Len(p) + 1, Len(s)) = p

\* positions at which p occurs in s
Occurrences(s, p) ==
    {i \in 1..(Len(s) - Len(p) + 1) : SubSeq(s, i, i + Len(p) - 1) = p}

\* s.includes(p)
includes(s, p) == Occurrences(s, p) # {}

SetMin(S) == CHOOSE x \in S : \A y \in S : x <= y

\* s.replace(p, ''), p a string: the first occurrence only
replaceFirst(s, p) ==
    IF Occurrences(s, p) = {} THEN s
    ELSE LET i == SetMin(Occurrences(s, p))
         IN  SubSeq(s, 1, i - 1) \o SubSeq(s, i + Len(p), Len(s))

RECURSIVE splitSlash(_)
\* s.split('/')
splitSlash(s) ==
    IF \A i \in 1..Len(s) : s[i] # "/" THEN <<s>>
    ELSE LET i == SetMin({j \in 1..Len(s) : s[j] = "/"})
         IN  <<SubSeq(s, 1, i - 1)>> \o splitSlash(SubSeq(s, i + 1, Len(s)))

RECURSIVE joinSlash(_)
\* parts.join('/')
joinSlash(parts) ==
    IF Len(parts) = 0 THEN <<>>
    ELSE IF Len(parts) = 1 THEN parts[1]
    ELSE parts[1] \o <<"/">> \o joinSlash(Tail(parts))

IsNonEmpty(p) == Len(p) > 0

\* s.trim(), blanks being the only white space of the model
RECURSIVE trim(_)
trim(s) ==
    IF Len(s) = 0 THEN s
    ELSE IF Head(s) = " " THEN trim(Tail(s))
    ELSE IF s[Len(s)] = " " THEN trim(SubSeq(s, 1, Len(s) - 1))
    ELSE s

IdPrefixLen == 6

\* name.replace(/[^a-z0-9]/gi, '_').toLowerCase()
sanitizeFilename(name) ==
    toLowerCase([i \in 1..Len(name) |->
                    IF name[i] \in Letters \cup Digits THEN name[i] ELSE "_"])

ManifestName == <<"s","e","s","s","i","o","n","_","m","a","n","i","f","e","s","t",
                  ".","j","s","o","n">>
WhiteboardsDir == <<"w","h","i","t","e","b","o","a","r","d","s">>
PlaygroundsDir == <<"p","l","a","y","g","r","o","u","n","d","s">>
SvgExt  == <<".","s","v","g">>
HtmlExt == <<".","h","t","m","l">>
ZipExt  == <<".","z","i","p">>
LevelTestStr == <<"l","e","v","e","l"," ","t","e","s","t">>
TestPrefixStr == <<"t","e","s","t",":">>
ManifestVersion == "1.1"


-----------------------------------------------------------------------------
(* JSON text and file contents *)

\* A file's text that is no JSON document (SVG markup, HTML, garbage)
Text(s) == [kind |-> "text", value |-> s]

\* JSON.stringify(v) of a value made of strings, numbers, arrays and objects
JSONstringify(v) == [kind |-> "json", value |-> v]

\* JSON.parse(d): throws on text that is no JSON document
JSONparse(d) ==
    IF d.kind = "json" THEN [ok |-> TRUE, value |-> d.value] ELSE [ok |-> FALSE]

-----------------------------------------------------------------------------
(* The JSZip object: its entries in insertion order, each [name, dir, data] *)

HasEntry(files, name) == \E i \in 1..Len(files) : files[i].name = name

EntryIndex(files, name) == CHOOSE i \in 1..Len(files) : files[i].name = name

RECURSIVE lastSlashBefore(_, _)
lastSlashBefore(path, i) ==
    IF i = 0 THEN 0
    ELSE IF path[i] = "/" THEN i
    ELSE lastSlashBefore(path, i - 1)

\* JSZip parentFolder(path): the directory that holds path, "" at the top
parentFolder(path) ==
    LET p == IF Len(path) > 0 /\ path[Len(path)] = "/"
             THEN SubSeq(path, 1, Len(path) - 1) ELSE path
        lastSlash == lastSlashBefore(p, Len(p))
    IN  IF lastSlash > 1 THEN SubSeq(p, 1, lastSlash - 1) ELSE <<>>

forceTrailingSlash(name) ==
    IF Len(name) > 0 /\ name[Len(name)] = "/" THEN name ELSE name \o <<"/">>

RECURSIVE folderAdd(_, _)
\* JSZip folderAdd: the directory entry and its ancestors, created when absent
folderAdd(files, name) ==
    LET n == forceTrailingSlash(name)
    IN  IF HasEntry(files, n) THEN files
        ELSE LET withParent == IF parentFolder(n) # <<>>
                               THEN folderAdd(files, parentFolder(n))
                               ELSE files
             IN  Append(withParent, [name |-> n, dir |-> TRUE, data |-> Text("")])

\* a faulty variant of zipFileAdd: a name already in the archive keeps its first data
zipFileAddKeepFirst(files, root, name, data) ==
    LET full == root \o name
        withParent == IF parentFolder(full) # <<>>
                      THEN folderAdd(files, parentFolder(full))
                      ELSE files
    IN  IF HasEntry(withParent, full) THEN withParent
        ELSE Append(withParent, [name |-> full, dir |-> FALSE, data |-> data])

\* JSZip file(name, data) on an object at `root`: add or overwrite in place
zipFileAdd(files, root, name, data) ==
    LET full == root \o name
        withParent == IF parentFolder(full) # <<>>
                      THEN folderAdd(files, parentFolder(full))
                      ELSE files
        entry == [name |-> full, dir |-> FALSE, data |-> data]
    IN  IF HasEntry(withParent, full)
        THEN [withParent EXCEPT ![EntryIndex(withParent, full)] = entry]
        ELSE Append(withParent, entry)

\* JSZip file(name): the entry, or null for an absent name or a directory
zipFileExists(files, name) ==
    HasEntry(files, name) /\ ~files[EntryIndex(files, name)].dir

zipFileData(files, name) == files[EntryIndex(files, name)].data

\* zip.forEach(cb) at the top: the relative paths in insertion order
zipNames(files) == [i \in 1..Len(files) |-> files[i].name]

-----------------------------------------------------------------------------
(* Export *)

wbFileName(wb) ==
    sanitizeFilename(wb.topic) \o <<"_">> \o substring0(wb.id, IdPrefixLen) \o SvgExt

pgFileName(pg) ==
    sanitizeFilename(pg.description) \o <<"_">> \o pg.id \o HtmlExt

RECURSIVE writeWhiteboards(_, _, _)
\* whiteboards.map(wb => whiteboardsFolder.file(fileName, wb.svgContent))
writeWhiteboards(files, root, whiteboards) ==
    IF Len(whiteboards) = 0 THEN files
    ELSE writeWhiteboards(
            zipFileAdd(files, root \o WhiteboardsDir \o <<"/">>,
                       wbFileName(Head(whiteboards)),
                       Text(Head(whiteboards).svgContent)),
            root, Tail(whiteboards))

RECURSIVE writePlaygrounds(_, _, _)
\* playgrounds.map(pg => playgroundFolder.file(fileName, pg.html))
writePlaygrounds(files, root, playgrounds) ==
    IF Len(playgrounds) = 0 THEN files
    ELSE writePlaygrounds(
            zipFileAdd(files, root \o PlaygroundsDir \o <<"/">>,
                       pgFileName(Head(playgrounds)),
                       Text(Head(playgrounds).html)),
            root, Tail(playgrounds))

\* a faulty variant of manifestWhiteboards: filePath leaves the whiteboards folder out
manifestWhiteboardsBare(whiteboards) ==
    [i \in 1..Len(whiteboards) |->
        [id |-> whiteboards[i].id,
         topic |-> whiteboards[i].topic,
         explanation |-> whiteboards[i].explanation,
         timestamp |-> whiteboards[i].timestamp,
         filePath |-> wbFileName(whiteboards[i])]]

\* const manifestWhiteboards = whiteboards.map(wb => ({ ..., filePath }))
manifestWhiteboards(whiteboards) ==
    [i \in 1..Len(whiteboards) |->
        [id |-> whiteboards[i].id,
         topic |-> whiteboards[i].topic,
         explanation |-> whiteboards[i].explanation,
         timestamp |-> whiteboards[i].timestamp,
         filePath |-> WhiteboardsDir \o <<"/">> \o wbFileName(whiteboards[i])]]

manifestPlaygrounds(playgrounds) ==
    [i \in 1..Len(playgrounds) |->
        [id |-> playgrounds[i].id,
         description |-> playgrounds[i].description,
         timestamp |-> playgrounds[i].timestamp,
         filePath |-> PlaygroundsDir \o <<"/">> \o pgFileName(playgrounds[i])]]

\* addSessionToZip(zipFolder, ...), zipFolder being the JSZip object at `root`
addSessionToZip(files, root, s, t) ==
    LET f1 == folderAdd(files, root \o WhiteboardsDir)
        f2 == folderAdd(f1, root \o PlaygroundsDir)
        f3 == writeWhiteboards(f2, root, s.whiteboards)
        f4 == writePlaygrounds(f3, root, s.playgrounds)
        manifest == [version |-> ManifestVersion,
                     createdAt |-> t,
                     theme |-> s.theme,
                     model |-> s.model,
                     chatHistory |-> s.chatHistory,
                     whiteboards |-> manifestWhiteboards(s.whiteboards),
                     playgrounds |-> manifestPlaygrounds(s.playgrounds)]
    IN  zipFileAdd(f4, root, ManifestName, JSONstringify(manifest))

\* exportSessionToZip: one session at the archive root
exportSessionToZip(s, t) == addSessionToZip(<<>>, <<>>, s, t)

\* the folder of one session of a collection
collectionPath(s) ==
    IF s.group # <<>>
    THEN sanitizeFilename(s.group) \o <<"/">> \o sanitizeFilename(s.name)
    ELSE sanitizeFilename(s.name)

RECURSIVE addCollection(_, _, _)
\* sessions.forEach(session => addSessionToZip(zip.folder(path), ...))
addCollection(files, ss, t) ==
    IF Len(ss) = 0 THEN files
    ELSE LET path == collectionPath(Head(ss))
             f1 == folderAdd(files, path)
         IN  addCollection(addSessionToZip(f1, forceTrailingSlash(path), Head(ss), t),
                           Tail(ss), t)

\* exportCollectionToZip: each session under group/name
exportCollectionToZip(ss, t) == addCollection(<<>>, ss, t)

-----------------------------------------------------------------------------
(* Import *)

\* svgFile ? await svgFile.async("string") : ""
readOrEmpty(files, fullPath) ==
    IF zipFileExists(files, fullPath) THEN zipFileData(files, fullPath).value ELSE ""

\* a faulty variant of isTest: the description is compared as it is written
isTestExact(description) ==
    \/ includes(description, LevelTestStr)
    \/ startsWith(description, TestPrefixStr)

\* the heuristic that rebuilds a playground's type from its description
isTest(description) ==
    \/ includes(toLowerCase(description), LevelTestStr)
    \/ startsWith(toLowerCase(description), TestPrefixStr)

extractWhiteboards(files, rootPath, items) ==
    [i \in 1..Len(items) |->
        [id |-> items[i].id,
         topic |-> items[i].topic,
         explanation |-> items[i].explanation,
         timestamp |-> items[i].timestamp,
         svgContent |-> readOrEmpty(files, rootPath \o items[i].filePath)]]

extractPlaygrounds(files, rootPath, items, t) ==
    [i \in 1..Len(items) |->
        [id |-> items[i].id,
         description |-> items[i].description,
         timestamp |-> IF items[i].timestamp # 0 THEN items[i].timestamp ELSE t,
         html |-> readOrEmpty(files, rootPath \o items[i].filePath),
         status |-> "ready",
         type |-> IF isTest(items[i].description) THEN "test" ELSE "practice"]]

\* the legacy singular `playground` field of old manifests
extractLegacyPlayground(files, rootPath, pg, t) ==
    IF zipFileExists(files, rootPath \o pg.filePath)
    THEN <<[id |-> <<"l","e","g","a","c","y">>,
            description |-> pg.description,
            timestamp |-> t,
            html |-> zipFileData(files, rootPath \o pg.filePath).value,
            status |-> "ready",
            type |-> "practice"]>>
    ELSE <<>>

\* a faulty variant of extractSessionFromFolder: a missing whiteboard file makes the extraction throw
extractSessionStrict(files, rootPath, t) ==
    IF ~zipFileExists(files, rootPath \o ManifestName) THEN [ok |-> FALSE]
    ELSE LET parsed == JSONparse(zipFileData(files, rootPath \o ManifestName))
         IN  IF ~parsed.ok THEN [ok |-> FALSE]
             ELSE IF \E i \in 1..Len(parsed.value.whiteboards) :
                        ~zipFileExists(files, rootPath \o parsed.value.whiteboards[i].filePath)
             THEN [ok |-> FALSE]
             ELSE [ok |-> TRUE,
                   session |->
                     [whiteboards |->
                         extractWhiteboards(files, rootPath, parsed.value.whiteboards),
                      chatHistory |-> parsed.value.chatHistory,
                      playgrounds |->
                         extractPlaygrounds(files, rootPath, parsed.value.playgrounds, t),
                      theme |-> parsed.value.theme,
                      model |-> parsed.value.model]]

\* extractSessionFromFolder(zip, rootPath): [ok |-> FALSE] when it throws
extractSessionFromFolder(files, rootPath, t) ==
    IF ~zipFileExists(files, rootPath \o ManifestName) THEN [ok |-> FALSE]
    ELSE LET parsed == JSONparse(zipFileData(files, rootPath \o ManifestName))
         IN  IF ~parsed.ok THEN [ok |-> FALSE]
             ELSE LET manifest == parsed.value
                  IN  IF "whiteboards" \notin DOMAIN manifest THEN [ok |-> FALSE]
                      ELSE [ok |-> TRUE,
                            session |->
                              [whiteboards |->
                                  extractWhiteboards(files, rootPath, manifest.whiteboards),
                               chatHistory |-> manifest.chatHistory,
                               playgrounds |->
                                  IF "playgrounds" \in DOMAIN manifest
                                  THEN extractPlaygrounds(files, rootPath,
                                                          manifest.playgrounds, t)
                                  ELSE IF "playground" \in DOMAIN manifest
                                  THEN extractLegacyPlayground(files, rootPath,
                                                               manifest.playground, t)
                                  ELSE <<>>,
                               theme |-> manifest.theme,
                               model |-> manifest.model]]

IsManifestPath(relativePath) == endsWith(relativePath, ManifestName)

\* the paths zip.forEach hands over that end with session_manifest.json
manifestPathsOf(files) == SelectSeq(zipNames(files), IsManifestPath)

\* a faulty variant of nameAndGroup: the group is the first segment alone
nameAndGroupFlat(rootPath, fileName) ==
    LET parts == SelectSeq(splitSlash(rootPath), IsNonEmpty)
    IN  IF Len(parts) = 0
        THEN [name |-> replaceFirst(fileName, ZipExt), group |-> <<>>]
        ELSE IF Len(parts) = 1
        THEN [name |-> parts[1], group |-> <<>>]
        ELSE [name |-> parts[Len(parts)], group |-> parts[1]]

\* name and group of an imported session, from its root path
nameAndGroup(rootPath, fileName) ==
    LET parts == SelectSeq(splitSlash(rootPath), IsNonEmpty)
    IN  IF Len(parts) = 0
        THEN [name |-> replaceFirst(fileName, ZipExt), group |-> <<>>]
        ELSE IF Len(parts) = 1
        THEN [name |-> parts[1], group |-> <<>>]
        ELSE [name |-> parts[Len(parts)],
              group |-> joinSlash(SubSeq(parts, 1, Len(parts) - 1))]

RECURSIVE importLoopAbort(_, _, _, _)
\* a faulty variant of importLoop: the first failing session ends the loop
importLoopAbort(file, paths, acc, t) ==
    IF Len(paths) = 0 THEN acc
    ELSE LET rootPath == replaceFirst(Head(paths), ManifestName)
             got == extractSessionFromFolder(file.files, rootPath, t)
             ng == nameAndGroup(rootPath, file.name)
             session == [whiteboards |-> got.session.whiteboards,
                         chatHistory |-> got.session.chatHistory,
                         playgrounds |-> got.session.playgrounds,
                         theme |-> got.session.theme,
                         model |-> got.session.model,
                         name |-> ng.name,
                         group |-> ng.group]
         IN  IF got.ok THEN importLoopAbort(file, Tail(paths), Append(acc, session), t)
             ELSE acc

RECURSIVE importLoop(_, _, _, _)
\* for (const path of manifestPaths) { try { ... results.push(session) } catch { warn } }
importLoop(file, paths, acc, t) ==
    IF Len(paths) = 0 THEN acc
    ELSE LET rootPath == replaceFirst(Head(paths), ManifestName)
             got == extractSessionFromFolder(file.files, rootPath, t)
             ng == nameAndGroup(rootPath, file.name)
             session == [whiteboards |-> got.session.whiteboards,
                         chatHistory |-> got.session.chatHistory,
                         playgrounds |-> got.session.playgrounds,
                         theme |-> got.session.theme,
                         model |-> got.session.model,
                         name |-> ng.name,
                         group |-> ng.group]
         IN  importLoop(file, Tail(paths),
                        IF got.ok THEN Append(acc, session) ELSE acc, t)

\* a faulty variant of importLibraryFromZip: an archive without a manifest yields no sessions
importLibraryNoThrow(file, t) ==
    IF ~file.isZip THEN [thrown |-> TRUE, sessions |-> <<>>]
    ELSE [thrown |-> FALSE,
          sessions |-> importLoop(file, manifestPathsOf(file.files), <<>>, t)]

\* importLibraryFromZip(file): [thrown |-> TRUE] when it throws
importLibraryFromZip(file, t) ==
    IF ~file.isZip THEN [thrown |-> TRUE, sessions |-> <<>>]
    ELSE IF Len(manifestPathsOf(file.files)) = 0
    THEN [thrown |-> TRUE, sessions |-> <<>>]
    ELSE [thrown |-> FALSE,
          sessions |-> importLoop(file, manifestPathsOf(file.files), <<>>, t)]

-----------------------------------------------------------------------------
(* Inputs of the export/import pipeline *)

RECURSIVE SeqsUpTo(_, _)
\* the sequences over S of length at most n
SeqsUpTo(S, n) ==
    IF n = 0 THEN {<<>>}
    ELSE LET shorter == SeqsUpTo(S, n - 1)
         IN  shorter \cup {Append(q, x) : q \in shorter, x \in S}

\* whiteboard ids as handleGenerate builds them: the clock's digits, then a random tail
WbIdA == <<"1","7","0","0","0","0","1">>
WbIdB == <<"1","7","0","0","0","0","2">>     \* same first six characters as WbIdA
WbIdC == <<"1","7","0","0","0","1","1">>

WhiteboardInputs ==
    {[id |-> WbIdA, topic |-> tp, svgContent |-> "<svg>A</svg>",
      explanation |-> "about A", timestamp |-> 11] : tp \in {<<"a">>, <<"A">>, <<"b">>}}
    \cup
    {[id |-> WbIdB, topic |-> tp, svgContent |-> "<svg>B</svg>",
      explanation |-> "about B", timestamp |-> 12] : tp \in {<<"a">>, <<"b">>}}
    \cup
    {[id |-> WbIdC, topic |-> <<"a">>, svgContent |-> "<svg>C</svg>",
      explanation |-> "about C", timestamp |-> 13]}

\* playground descriptions: "pq", "Level Test", "Test:a", "a test"
PgDescriptions ==
    {<<"p","q">>,
     <<"L","e","v","e","l"," ","T","e","s","t">>,
     <<"T","e","s","t",":","a">>,
     <<"a"," ","t","e","s","t">>}

PlaygroundInputs ==
    {[id |-> <<"1","7">>, html |-> "<h1>1</h1>", description |-> d, timestamp |-> 21,
      status |-> "ready", type |-> ty] : d \in PgDescriptions, ty \in {"practice", "test"}}
    \cup
    {[id |-> <<"1","8">>, html |-> "<h1>2</h1>", description |-> <<"p","q">>,
      timestamp |-> 22, status |-> "ready", type |-> "practice"],
     [id |-> <<"1","7">>, html |-> "<h1>3</h1>", description |-> <<"P","Q">>,
      timestamp |-> 23, status |-> "error", type |-> "practice"]}

ChatInputs ==
    {[chatHistory |-> <<>>, theme |-> "light", model |-> "flash"],
     [chatHistory |-> <<[id |-> "m1", role |-> "user", content |-> "hi", timestamp |-> 31]>>,
      theme |-> "dark", model |-> "pro"]}

Bundle(wbs, pgs, c) ==
    [whiteboards |-> wbs, playgrounds |-> pgs,
     chatHistory |-> c.chatHistory, theme |-> c.theme, model |-> c.model]

Named(b, name, group) ==
    [whiteboards |-> b.whiteboards, playgrounds |-> b.playgrounds,
     chatHistory |-> b.chatHistory, theme |-> b.theme, model |-> b.model,
     name |-> name, group |-> group]

BundleOf(s) ==
    [whiteboards |-> s.whiteboards, playgrounds |-> s.playgrounds,
     chatHistory |-> s.chatHistory, theme |-> s.theme, model |-> s.model]

\* one session, exported alone
SingleInputs ==
    {<<Named(Bundle(wbs, pgs, c), <<"s">>, <<>>)>> :
        wbs \in SeqsUpTo(WhiteboardInputs, MaxWb),
        pgs \in SeqsUpTo(PlaygroundInputs, MaxPg),
        c \in ChatInputs}

\* the sessions of a library: the names "a", "A" and "b", in the group "g" or in none
WbOf(id) == CHOOSE w \in WhiteboardInputs : w.id = id /\ w.topic = <<"a">>

LibraryBundles ==
    LET light == CHOOSE c \in ChatInputs : c.theme = "light"
        dark == CHOOSE c \in ChatInputs : c.theme = "dark"
        pg == CHOOSE p \in PlaygroundInputs : p.html = "<h1>2</h1>"
    IN  {Bundle(<<WbOf(WbIdA)>>, <<>>, light),
         Bundle(<<WbOf(WbIdB)>>, <<pg>>, dark),
         Bundle(<<WbOf(WbIdA), WbOf(WbIdB)>>, <<>>, light),
         Bundle(<<WbOf(WbIdC), WbOf(WbIdA)>>, <<>>, dark)}

LibrarySessions ==
    {Named(b, n, g) : b \in LibraryBundles,
                      n \in {<<"a">>, <<"A">>, <<"b">>},
                      g \in {<<>>, <<"g">>}}

CollectionInputs == SeqsUpTo(LibrarySessions, MaxSessions) \ {<<>>}

ArchiveName == <<"b","a","c","k","u","p",".","z","i","p">>

NoFile == [name |-> <<>>, isZip |-> FALSE, files |-> <<>>]
NoResults == [thrown |-> FALSE, sessions |-> <<>>]

-----------------------------------------------------------------------------
(* The export/import pipeline: export, edits to the archive file, import *)

\* the user exports one session (exportSessionToZip)
ExportSession ==
    /\ phase = "input"
    /\ Len(sessions) = 1
    /\ archive' = [name |-> ArchiveName, isZip |-> TRUE,
                   files |-> exportSessionToZip(sessions[1], now)]
    /\ exportKind' = "single"
    /\ phase' = "exported"
    /\ UNCHANGED <<now, sessions, results, damage>>
    /\ UNCHANGED libVars
    /\ UNCHANGED appVars

\* the user exports the library (exportCollectionToZip)
ExportCollection ==
    /\ phase = "input"
    /\ archive' = [name |-> ArchiveName, isZip |-> TRUE,
                   files |-> exportCollectionToZip(sessions, now)]
    /\ exportKind' = "collection"
    /\ phase' = "exported"
    /\ UNCHANGED <<now, sessions, results, damage>>
    /\ UNCHANGED libVars
    /\ UNCHANGED appVars

RemoveAt(q, i) == SubSeq(q, 1, i - 1) \o SubSeq(q, i + 1, Len(q))

\* a file is deleted from the archive before it is imported
DeleteArchiveFile ==
    /\ phase = "exported"
    /\ damage < MaxDamage
    /\ \E i \in 1..Len(archive.files) :
          /\ ~archive.files[i].dir
          /\ archive' = [archive EXCEPT !.files = RemoveAt(archive.files, i)]
    /\ damage' = damage + 1
    /\ UNCHANGED <<now, sessions, exportKind, results, phase>>
    /\ UNCHANGED libVars
    /\ UNCHANGED appVars

\* a manifest of the archive is overwritten with text that is no JSON
CorruptArchiveManifest ==
    /\ phase = "exported"
    /\ damage < MaxDamage
    /\ \E i \in 1..Len(archive.files) :
          /\ IsManifestPath(archive.files[i].name)
          /\ archive.files[i].data.kind = "json"
          /\ archive' = [archive EXCEPT !.files[i].data = Text("not json")]
    /\ damage' = damage + 1
    /\ UNCHANGED <<now, sessions, exportKind, results, phase>>
    /\ UNCHANGED libVars
    /\ UNCHANGED appVars

\* the archive is imported (importLibraryFromZip)
ImportArchive ==
    /\ phase = "exported"
    /\ results' = importLibraryFromZip(archive, now)
    /\ phase' = "imported"
    /\ UNCHANGED <<now, sessions, exportKind, archive, damage>>
    /\ UNCHANGED libVars
    /\ UNCHANGED appVars

-----------------------------------------------------------------------------
(* localStorage: a map from keys <<kind, id>> to JSON text, with a quota *)

NoId == <<0, 0>>
IndexKey == <<"index", NoId>>          \* STORAGE_KEYS.LIBRARY_INDEX
DataKey(id) == <<"data", id>>          \* STORAGE_KEYS.LIBRARY_DATA_PREFIX + id

EmptyStore == [k \in {} |-> JSONstringify(<<>>)]

\* units the store holds: one per payload, one for the session, one per entry of the index
storeSize(st) ==
    Cardinality({k \in DOMAIN st : k[1] \in {"data", "session"}})
    + (IF IndexKey \in DOMAIN st THEN Len(st[IndexKey].value) ELSE 0)

\* localStorage.setItem: throws (ok = FALSE, nothing written) over the quota
setItem(st, key, doc) ==
    LET written == (key :> doc) @@ st
    IN  IF storeSize(written) <= StoreCap
        THEN [ok |-> TRUE, store |-> written]
        ELSE [ok |-> FALSE, store |-> st]

\* localStorage.removeItem
removeItem(st, key) == [k \in DOMAIN st \ {key} |-> st[k]]

\* localStorage.getItem: null when the key is absent
hasItem(st, key) == key \in DOMAIN st

\* the stored index, as loadLibraryIndex reads it
storedIndex(st) ==
    IF hasItem(st, IndexKey) /\ JSONparse(st[IndexKey]).ok
    THEN JSONparse(st[IndexKey]).value
    ELSE <<>>

-----------------------------------------------------------------------------
(* The session library (SessionManager) *)

NoError == "null"
StorageFullMsg == "Storage full. Cannot save session locally."
NotFoundMsg == "Session data not found."
ImportFailedMsg == "Failed to import. Ensure file is a valid ZIP archive."

EmptyBundle ==
    [whiteboards |-> <<>>, playgrounds |-> <<>>, chatHistory |-> <<>>,
     theme |-> "light", model |-> "flash"]

Idle == [pc |-> "idle", file |-> NoFile, closure |-> <<>>]

\* the auto-save after construction: no folder, 'MySession' every 5 minutes, no timer
NoAutoSave ==
    [handle |-> 0, pendingResumeHandle |-> 0, restoring |-> TRUE, mounted |-> TRUE,
     interval |-> 5, name |-> <<"M","y","S","e","s","s","i","o","n">>,
     timerRef |-> 0, timers |-> {}, created |-> 0,
     sessionStateRef |-> EmptyBundle, written |-> <<>>]

\* no async handler of the App is suspended
NoPending ==
    [send |-> <<>>, refine |-> FALSE, generatingTest |-> FALSE, builds |-> {},
     isGenerating |-> FALSE, generating |-> {}, mount |-> "settled", loaded |-> <<>>]

\* the record of the handler that ran last: its name, the id it was about, whether it
\* succeeded, and for an import the manifests discovered and the sessions returned
Op(op, id, ok) ==
    [op |-> op, id |-> id, ok |-> ok, afterSave |-> FALSE, manifests |-> 0, returned |-> 0]

NoOp == Op("none", NoId, TRUE)

\* Date.now().toString(36) + Math.random().toString(36).substr(2)
newLibraryId(t, r) == <<t, r>>

IdsOf(index) == {index[i].id : i \in 1..Len(index)}

\* the ids some payload or index entry carries
idsInUse ==
    {k[2] : k \in {d \in DOMAIN store : d[1] = "data"}}
    \cup IdsOf(storedIndex(store)) \cup IdsOf(savedSessions) \cup IdsOf(importTask.closure)

\* the random parts of the ids in use at this clock value
randsInUse == {id[2] : id \in {i \in idsInUse : i[1] = now}}

\* outcomes of Math.random() that differ in which ids the new id equals: every value
\* of `used`, and the least value that is not in it
Outcomes(used) ==
    LET fresh == {r \in 1..MaxRand : r \notin used}
    IN  (used \cap 1..MaxRand) \cup (IF fresh = {} THEN {} ELSE {SetMin(fresh)})

RECURSIVE OutcomeSeqs(_, _)
\* the outcomes of n successive draws
OutcomeSeqs(used, n) ==
    IF n = 0 THEN {<<>>}
    ELSE UNION {{<<r>> \o rest : rest \in OutcomeSeqs(used \cup {r}, n - 1)} :
                   r \in Outcomes(used)}

\* the modal is opened: useEffect -> loadLibraryIndex
OpenSessionManager ==
    /\ ~isOpen
    /\ isOpen' = TRUE
    /\ savedSessions' = storedIndex(store)
    /\ lastOp' = NoOp
    /\ UNCHANGED <<now, store, error, isProcessing, saveName, saveGroup, current,
                   importTask>>
    /\ UNCHANGED zipVars
    /\ UNCHANGED appVars

\* the modal is closed
CloseSessionManager ==
    /\ isOpen
    /\ isOpen' = FALSE
    /\ lastOp' = NoOp
    /\ UNCHANGED <<now, store, savedSessions, error, isProcessing, saveName, saveGroup,
                   current, importTask>>
    /\ UNCHANGED zipVars
    /\ UNCHANGED appVars

\* what the user may have typed: <<session name, folder name>>
NameInputs == {<<<<" ">>, <<>>>>, <<<<"a">>, <<"g">>>>}

\* the user types into the name and folder inputs
TypeSaveName ==
    /\ isOpen
    /\ \E typed \in NameInputs :
          /\ typed # <<saveName, saveGroup>>
          /\ saveName' = typed[1]
          /\ saveGroup' = typed[2]
    /\ lastOp' = NoOp
    /\ UNCHANGED <<now, store, savedSessions, error, isProcessing, isOpen, current,
                   importTask>>
    /\ UNCHANGED zipVars
    /\ UNCHANGED appVars

\* a faulty variant of sessionData: the stored payload leaves the conversation out
sessionDataNoChat(c) ==
    [whiteboards |-> c.whiteboards, chatHistory |-> <<>>,
     playgrounds |-> c.playgrounds, theme |-> c.theme, model |-> c.model]

\* const sessionData: SessionData = { whiteboards, chatHistory, playgrounds, theme, model }
sessionData(c) ==
    [whiteboards |-> c.whiteboards, chatHistory |-> c.chatHistory,
     playgrounds |-> c.playgrounds, theme |-> c.theme, model |-> c.model]

saveMetadata(newId, name, group, t, c) ==
    [id |-> newId, name |-> trim(name), group |-> trim(group),
     timestamp |-> t, topicCount |-> Len(c.whiteboards)]

\* saveToLibrary, the "Save Current Session" button
saveToLibrary(r) ==
    /\ isOpen
    /\ saveName # <<>>                      \* the button is disabled otherwise
    /\ Len(current.whiteboards) > 0
    /\ LET newId == newLibraryId(now, r)
           metadata == saveMetadata(newId, saveName, saveGroup, now, current)
           w1 == setItem(store, DataKey(newId), JSONstringify(sessionData(current)))
           newIndex == Append(savedSessions, metadata)
           w2 == setItem(w1.store, IndexKey, JSONstringify(newIndex))
       IN  IF trim(saveName) = <<>>
           THEN /\ lastOp' = NoOp
                /\ UNCHANGED <<store, savedSessions, error, saveName>>
           ELSE IF ~w1.ok
           THEN /\ error' = StorageFullMsg
                /\ lastOp' = Op("save", newId, FALSE)
                /\ UNCHANGED <<store, savedSessions, saveName>>
           ELSE IF ~w2.ok
           THEN /\ store' = w1.store
                /\ error' = StorageFullMsg
                /\ lastOp' = Op("save", newId, FALSE)
                /\ UNCHANGED <<savedSessions, saveName>>
           ELSE /\ store' = w2.store
                /\ savedSessions' = newIndex
                /\ saveName' = <<>>
                /\ lastOp' = Op("save", newId, TRUE)
                /\ UNCHANGED error
    /\ UNCHANGED <<now, isProcessing, isOpen, saveGroup, current, importTask>>
    /\ UNCHANGED zipVars
    /\ UNCHANGED appVars

\* what loadFromLibrary hands to onImport for a stored payload
loadedData(parsed, c) ==
    [whiteboards |-> parsed.whiteboards,
     chatHistory |-> parsed.chatHistory,
     playgrounds |-> parsed.playgrounds,
     theme |-> IF parsed.theme # "" THEN parsed.theme ELSE c.theme,
     model |-> IF parsed.model # "" THEN parsed.model ELSE c.model]

\* the handler that ran just before was a successful saveToLibrary that created `id`
SavedJustBefore(id) == lastOp.op = "save" /\ lastOp.ok /\ lastOp.id = id

\* a faulty variant of loadFromLibrary: a missing payload loads an empty session
loadFromLibraryBlank(id) ==
    /\ isOpen
    /\ id \in IdsOf(savedSessions)
    /\ IF hasItem(store, DataKey(id))
       THEN /\ current' = loadedData(JSONparse(store[DataKey(id)]).value, current)
            /\ lastOp' = [Op("load", id, TRUE) EXCEPT !.afterSave = SavedJustBefore(id)]
            /\ UNCHANGED error
       ELSE /\ current' = EmptyBundle
            /\ error' = NotFoundMsg
            /\ lastOp' = [Op("load", id, FALSE) EXCEPT !.afterSave = SavedJustBefore(id)]
    /\ isOpen' = FALSE
    /\ UNCHANGED <<now, store, savedSessions, isProcessing, saveName, saveGroup,
                   importTask>>
    /\ UNCHANGED zipVars
    /\ UNCHANGED appVars

\* loadFromLibrary(id), the "Load" button of a row
loadFromLibrary(id) ==
    /\ isOpen
    /\ id \in IdsOf(savedSessions)
    /\ IF hasItem(store, DataKey(id))
       THEN /\ current' = loadedData(JSONparse(store[DataKey(id)]).value, current)
            /\ isOpen' = FALSE
            /\ lastOp' = [Op("load", id, TRUE) EXCEPT !.afterSave = SavedJustBefore(id)]
            /\ UNCHANGED error
       ELSE /\ error' = NotFoundMsg
            /\ lastOp' = [Op("load", id, FALSE) EXCEPT !.afterSave = SavedJustBefore(id)]
            /\ UNCHANGED <<current, isOpen>>
    /\ UNCHANGED <<now, store, savedSessions, isProcessing, saveName, saveGroup,
                   importTask>>
    /\ UNCHANGED zipVars
    /\ UNCHANGED appVars

RECURSIVE withoutIdFirst(_, _)
\* a faulty variant of withoutId: only the first entry that carries the id is dropped
withoutIdFirst(index, id) ==
    IF Len(index) = 0 THEN <<>>
    ELSE IF Head(index).id = id THEN Tail(index)
    ELSE <<Head(index)>> \o withoutIdFirst(Tail(index), id)

\* savedSessions.filter(s => s.id !== id)
RECURSIVE withoutId(_, _)
withoutId(index, id) ==
    IF Len(index) = 0 THEN <<>>
    ELSE IF Head(index).id = id THEN withoutId(Tail(index), id)
    ELSE <<Head(index)>> \o withoutId(Tail(index), id)

\* deleteFromLibrary(id), the trash button of a row; `confirmed` is the confirm() answer
deleteFromLibrary(id, confirmed) ==
    /\ isOpen
    /\ id \in IdsOf(savedSessions)
    /\ IF ~confirmed
       THEN /\ lastOp' = Op("deleteCancelled", id, FALSE)
            /\ UNCHANGED <<store, savedSessions>>
       ELSE LET removed == removeItem(store, DataKey(id))
                newIndex == withoutId(savedSessions, id)
                w == setItem(removed, IndexKey, JSONstringify(newIndex))
            IN  IF w.ok
                THEN /\ store' = w.store
                     /\ savedSessions' = newIndex
                     /\ lastOp' = Op("delete", id, TRUE)
                ELSE /\ store' = removed           \* the exception leaves the handler
                     /\ lastOp' = Op("delete", id, FALSE)
                     /\ UNCHANGED savedSessions
    /\ UNCHANGED <<now, error, isProcessing, isOpen, saveName, saveGroup, current,
                   importTask>>
    /\ UNCHANGED zipVars
    /\ UNCHANGED appVars

-----------------------------------------------------------------------------
(* ZIP import into the library (handleFileChange) *)

ImportedName == <<"I","m","p","o","r","t","e","d">>

importMetadata(newId, session, t) ==
    [id |-> newId,
     name |-> IF session.name # <<>> THEN session.name ELSE ImportedName,
     group |-> session.group,
     timestamp |-> t,
     topicCount |-> Len(session.whiteboards)]

RECURSIVE importWrites(_, _, _, _, _)
\* importedSessions.forEach: payload written, entry pushed; a rejected write throws
importWrites(st, index, imported, rs, t) ==
    IF Len(imported) = 0 THEN [ok |-> TRUE, store |-> st, index |-> index]
    ELSE LET newId == newLibraryId(t, Head(rs))
             w == setItem(st, DataKey(newId), JSONstringify(sessionData(Head(imported))))
         IN  IF ~w.ok THEN [ok |-> FALSE, store |-> st, index |-> index]
             ELSE importWrites(w.store,
                               Append(index, importMetadata(newId, Head(imported), t)),
                               Tail(imported), Tail(rs), t)

\* archives the user may pick in the file dialog
PickA == Named(Bundle(<<CHOOSE w \in WhiteboardInputs : w.id = WbIdA /\ w.topic = <<"a">>>>,
                      <<>>, CHOOSE c \in ChatInputs : c.theme = "light"),
               <<"a">>, <<"g">>)
PickB == Named(Bundle(<<CHOOSE w \in WhiteboardInputs : w.id = WbIdB /\ w.topic = <<"b">>>>,
                      <<CHOOSE g \in PlaygroundInputs : g.id = <<"1","8">>>>, CHOOSE c \in ChatInputs : c.theme = "dark"),
               <<"b">>, <<>>)

ZipFile(files) == [name |-> ArchiveName, isZip |-> TRUE, files |-> files]

corruptManifests(files, which) ==
    [i \in 1..Len(files) |->
        IF IsManifestPath(files[i].name)
           /\ Cardinality({j \in 1..i : IsManifestPath(files[j].name)}) \in which
        THEN [files[i] EXCEPT !.data = Text("not json")]
        ELSE files[i]]

FileNotZip == [name |-> ArchiveName, isZip |-> FALSE, files |-> <<>>]
FileNoManifest ==
    ZipFile(<<[name |-> <<"a",".","s","v","g">>, dir |-> FALSE, data |-> Text("<svg>A</svg>")]>>)
FileOne == ZipFile(exportSessionToZip(PickA, 1))
FileTwo == ZipFile(exportCollectionToZip(<<PickA, PickB>>, 1))
FileOneCorrupt == ZipFile(corruptManifests(FileOne.files, {1}))

FileChoices == {FileNotZip, FileNoManifest, FileOne, FileTwo, FileOneCorrupt}

\* manifests the import discovers in a file; -1 when the file is no ZIP
discovered(file) == IF file.isZip THEN Len(manifestPathsOf(file.files)) ELSE -1

\* handleFileChange up to its await on importLibraryFromZip
handleFileChangeStart(file) ==
    /\ isOpen
    /\ ~isProcessing                         \* the Import button is disabled otherwise
    /\ importTask.pc = "idle"
    /\ isProcessing' = TRUE
    /\ error' = NoError
    /\ importTask' = [pc |-> "awaiting", file |-> file, closure |-> savedSessions]
    /\ lastOp' = NoOp
    /\ UNCHANGED <<now, store, savedSessions, isOpen, saveName, saveGroup, current>>
    /\ UNCHANGED zipVars
    /\ UNCHANGED appVars

ImportOp(ok, file, returned) ==
    [Op("import", NoId, ok) EXCEPT !.manifests = discovered(file), !.returned = returned]

\* handleFileChange from the point where importLibraryFromZip has settled
handleFileChangeResume ==
    /\ importTask.pc = "awaiting"
    /\ LET r == importLibraryFromZip(importTask.file, now)
       IN  IF r.thrown
           THEN /\ error' = ImportFailedMsg
                /\ lastOp' = ImportOp(FALSE, importTask.file, 0)
                /\ UNCHANGED <<store, savedSessions>>
           ELSE \E rs \in OutcomeSeqs(randsInUse, Len(r.sessions)) :
                  LET w == importWrites(store, importTask.closure, r.sessions, rs, now)
                      w2 == setItem(w.store, IndexKey, JSONstringify(w.index))
                  IN  IF w.ok /\ w2.ok
                      THEN /\ store' = w2.store
                           /\ savedSessions' = w.index
                           /\ lastOp' = ImportOp(TRUE, importTask.file, Len(r.sessions))
                           /\ UNCHANGED error
                      ELSE /\ store' = w.store
                           /\ error' = ImportFailedMsg
                           /\ lastOp' = ImportOp(FALSE, importTask.file, Len(r.sessions))
                           /\ UNCHANGED savedSessions
    /\ isProcessing' = FALSE
    /\ importTask' = Idle
    /\ UNCHANGED <<now, isOpen, saveName, saveGroup, current>>
    /\ UNCHANGED zipVars
    /\ UNCHANGED appVars

-----------------------------------------------------------------------------
(* Specifications *)

\* what the App may hold when the library is used
AppSessions == {BundleOf(PickB)}

LibInit ==
    /\ store = EmptyStore
    /\ savedSessions = <<>>
    /\ error = NoError
    /\ isProcessing = FALSE
    /\ isOpen = FALSE
    /\ saveName = <<>>
    /\ saveGroup = <<>>
    /\ importTask = Idle
    /\ lastOp = NoOp
    /\ saveToLocal = FALSE
    /\ pending = NoPending
    /\ crashed = FALSE
    /\ autoSave = NoAutoSave

ZipIdle ==
    /\ sessions = <<>>
    /\ exportKind = "none"
    /\ archive = NoFile
    /\ results = NoResults
    /\ phase = "idle"
    /\ damage = 0

\* the session library in the browser
Init ==
    /\ now = 1
    /\ current \in AppSessions
    /\ LibInit
    /\ ZipIdle

Next ==
    \/ OpenSessionManager
    \/ CloseSessionManager
    \/ TypeSaveName
    \/ \E r \in Outcomes(randsInUse) : saveToLibrary(r)
    \/ \E id \in IdsOf(savedSessions) : loadFromLibrary(id)
    \/ \E id \in IdsOf(savedSessions), confirmed \in BOOLEAN : deleteFromLibrary(id, confirmed)
    \/ \E file \in FileChoices : handleFileChangeStart(file)
    \/ handleFileChangeResume

Spec == Init /\ [][Next]_vars

\* the export/import pipeline on bounded inputs
ZipInit ==
    /\ now = 1
    /\ current = EmptyBundle
    /\ LibInit
    /\ sessions \in SingleInputs \cup CollectionInputs
    /\ exportKind = "none"
    /\ archive = NoFile
    /\ results = NoResults
    /\ phase = "input"
    /\ damage = 0

ZipNext ==
    \/ ExportSession
    \/ ExportCollection
    \/ DeleteArchiveFile
    \/ CorruptArchiveManifest
    \/ ImportArchive

SpecZip == ZipInit /\ [][ZipNext]_vars

-----------------------------------------------------------------------------
(* Archives that did not come from this export as they are: packages re-zipped inside
   other folders, and packages of the older format with a singular `playground` *)

\* folders a package may have been zipped into
ArchivePrefixes == {<<>>, <<"x","/">>, <<"x","/","/","y","/">>}

\* every entry of the package moved under `prefix`
nestUnder(files, prefix) ==
    [i \in 1..Len(files) |-> [files[i] EXCEPT !.name = prefix \o @]]

\* the manifest as the older format wrote it: one `playground`, no `playgrounds`
legacyManifest(m) ==
    [version |-> "1.0",
     createdAt |-> m.createdAt,
     theme |-> m.theme,
     model |-> m.model,
     chatHistory |-> m.chatHistory,
     whiteboards |-> m.whiteboards,
     playground |-> [description |-> m.playgrounds[1].description,
                     filePath |-> m.playgrounds[1].filePath]]

legacyOf(files) ==
    [i \in 1..Len(files) |->
        IF IsManifestPath(files[i].name)
        THEN [files[i] EXCEPT !.data = JSONstringify(legacyManifest(@.value))]
        ELSE files[i]]

\* sessions whose packages are re-zipped: alone, or as a library of one session
NestedInputs ==
    {<<s>> : s \in LibrarySessions}

\* sessions of the older format: at most one whiteboard and one playground
LegacyInputs ==
    {<<Named(Bundle(wbs, <<pg>>, c), <<"s">>, <<>>)>> :
        wbs \in SeqsUpTo(WhiteboardInputs, 1),
        pg \in PlaygroundInputs,
        c \in ChatInputs}

ArchiveInit ==
    /\ now = 1
    /\ current = EmptyBundle
    /\ LibInit
    /\ results = NoResults
    /\ phase = "exported"
    /\ damage = 0
    /\ \/ /\ sessions \in NestedInputs
          /\ exportKind \in {"single", "collection"}
          /\ \E prefix \in ArchivePrefixes :
                archive = ZipFile(nestUnder(
                             IF exportKind = "single"
                             THEN exportSessionToZip(sessions[1], now)
                             ELSE exportCollectionToZip(sessions, now),
                             prefix))
       \/ /\ sessions \in LegacyInputs
          /\ exportKind = "single"
          /\ archive = ZipFile(legacyOf(exportSessionToZip(sessions[1], now)))

ArchiveNext ==
    \/ DeleteArchiveFile
    \/ CorruptArchiveManifest
    \/ ImportArchive

SpecArchive == ArchiveInit /\ [][ArchiveNext]_vars

\* sessions of two whiteboards and two playgrounds, the playgrounds all of the file
\* name stem "pq", exported alone
CollisionInputs ==
    {<<Named(Bundle(<<w1, w2>>, <<p1, p2>>, CHOOSE c \in ChatInputs : c.theme = "light"),
             <<"s">>, <<>>)>> :
        w1 \in WhiteboardInputs, w2 \in WhiteboardInputs,
        p1 \in {p \in PlaygroundInputs : sanitizeFilename(p.description) = <<"p","q">>},
        p2 \in {p \in PlaygroundInputs : sanitizeFilename(p.description) = <<"p","q">>}}

CollisionInit ==
    /\ now = 1
    /\ current = EmptyBundle
    /\ LibInit
    /\ results = NoResults
    /\ phase = "exported"
    /\ damage = 0
    /\ sessions \in CollisionInputs
    /\ exportKind = "single"
    /\ archive = ZipFile(exportSessionToZip(sessions[1], now))

SpecCollision == CollisionInit /\ [][ArchiveNext]_vars

-----------------------------------------------------------------------------
(* The grouped index shown in the modal *)

Ungrouped == <<"U","n","g","r","o","u","p","e","d">>

\* session.group || 'Ungrouped'
groupLabel(session) == IF session.group # <<>> THEN session.group ELSE Ungrouped

RECURSIVE bucketOf(_, _)
bucketOf(index, g) ==
    IF Len(index) = 0 THEN <<>>
    ELSE IF groupLabel(Head(index)) = g THEN <<Head(index)>> \o bucketOf(Tail(index), g)
    ELSE bucketOf(Tail(index), g)

\* groupedSessions: every label, 'Ungrouped' included, with its entries in index order
groupedSessions(index) ==
    [g \in {Ungrouped} \cup {groupLabel(index[i]) : i \in 1..Len(index)} |->
        bucketOf(index, g)]

\* the order in which a locale-aware comparison ranks characters, case set aside
CollationOrder ==
    <<"_", " ", "0","1","2","3","4","5","6","7","8","9",
      "a","b","c","d","e","f","g","h","i","j","k","l","m","n","o","p","q",
      "r","s","t","u","v","w","x","y","z">>

charRank(c) == CHOOSE i \in 1..Len(CollationOrder) : CollationOrder[i] = ToLowerChar(c)

RECURSIVE comparePrimary(_, _)
\* first level of the comparison: the characters' ranks, letter case ignored
comparePrimary(a, b) ==
    IF Len(a) = 0 /\ Len(b) = 0 THEN 0
    ELSE IF Len(a) = 0 THEN -1
    ELSE IF Len(b) = 0 THEN 1
    ELSE IF charRank(Head(a)) < charRank(Head(b)) THEN -1
    ELSE IF charRank(Head(a)) > charRank(Head(b)) THEN 1
    ELSE comparePrimary(Tail(a), Tail(b))

RECURSIVE compareCase(_, _)
\* last level of the comparison: at the first difference the lower-case letter is first
compareCase(a, b) ==
    IF Len(a) = 0 \/ Len(b) = 0 THEN 0
    ELSE IF Head(a) = Head(b) THEN compareCase(Tail(a), Tail(b))
    ELSE IF Head(a) = ToLowerChar(Head(a)) THEN -1
    ELSE 1

\* a.localeCompare(b)
localeCompare(a, b) ==
    IF comparePrimary(a, b) # 0 THEN comparePrimary(a, b) ELSE compareCase(a, b)

\* a faulty variant of keyCompare: 'Ungrouped' is compared like any other label
keyComparePlain(a, b) == localeCompare(a, b)

\* the comparator of groupKeys
keyCompare(a, b) ==
    IF a = Ungrouped THEN 1
    ELSE IF b = Ungrouped THEN -1
    ELSE localeCompare(a, b)

RECURSIVE sortKeys(_)
\* Array.prototype.sort with keyCompare over distinct keys
sortKeys(S) ==
    IF S = {} THEN <<>>
    ELSE LET first == CHOOSE x \in S : \A y \in S \ {x} : keyCompare(x, y) < 0
         IN  <<first>> \o sortKeys(S \ {first})

\* groupKeys = Object.keys(groupedSessions).sort(...)
groupKeys(index) == sortKeys(DOMAIN groupedSessions(index))

\* folder names of the entries of a stored index; <<>> is an entry without group
GroupInputs ==
    {<<>>,
     <<"A","l","p","h","a">>,
     <<"Z","e","t","a">>,
     <<"b">>,
     Ungrouped}

\* a stored index: entry i has the id <<1, i>>
IndexInputs ==
    UNION {{[i \in 1..n |-> [id |-> <<1, i>>, name |-> <<"a">>, group |-> gs[i],
                             timestamp |-> 1, topicCount |-> 1]] :
              gs \in [1..n -> GroupInputs]} : n \in 0..MaxIndex}

\* a library as an earlier visit left it in localStorage
IndexInit ==
    /\ now = 1
    /\ current = EmptyBundle
    /\ ZipIdle
    /\ \E index \in IndexInputs : store = (IndexKey :> JSONstringify(index))
    /\ savedSessions = <<>>
    /\ error = NoError
    /\ isProcessing = FALSE
    /\ isOpen = FALSE
    /\ saveName = <<>>
    /\ saveGroup = <<>>
    /\ importTask = Idle
    /\ lastOp = NoOp
    /\ saveToLocal = FALSE
    /\ pending = NoPending
    /\ crashed = FALSE
    /\ autoSave = NoAutoSave

IndexNext ==
    \/ OpenSessionManager
    \/ CloseSessionManager
    \/ \E id \in IdsOf(savedSessions), confirmed \in BOOLEAN : deleteFromLibrary(id, confirmed)

SpecIndex == IndexInit /\ [][IndexNext]_vars

-----------------------------------------------------------------------------
(* The App: the Storage toggle and the session's whiteboards, playgrounds and chat *)

MaxClock == 2       \* milliseconds the wall clock advances
MaxAppWb == 2       \* whiteboards of the App's session
MaxAppPg == 2       \* playgrounds of the App's session
MaxChat == 4        \* entries of the App's chat history
MaxTimers == 3      \* timers window.setInterval hands out
MaxGenWb == 6       \* whiteboards of the session while lessons are generated
MaxInFlight == 2    \* handleGenerate invocations suspended at once

SessionKey == <<"session", NoId>>      \* STORAGE_KEYS.SESSION

RECURSIVE toStringNat(_)
\* Number.prototype.toString of a non-negative integer
toStringNat(n) ==
    LET digit(d) == <<"0","1","2","3","4","5","6","7","8","9">>[d + 1]
    IN  IF n < 10 THEN <<digit(n)>> ELSE toStringNat(n \div 10) \o <<digit(n % 10)>>

\* Math.random() turned into a string by `+`: "0." and the digits drawn
randomString(r) == <<"0", ".">> \o toStringNat(r)

\* JSON.stringify({ whiteboards, chatHistory, playgrounds })
sessionDoc(c) ==
    JSONstringify([whiteboards |-> c.whiteboards, chatHistory |-> c.chatHistory,
                   playgrounds |-> c.playgrounds])

\* the session persistence effect: setItem is not guarded, so an exception of it leaves
\* the effect, and React unmounts the App
persistSession(on, c) ==
    IF on
    THEN LET w == setItem(store, SessionKey, sessionDoc(c))
         IN  /\ store' = w.store
             /\ crashed' = ~w.ok
    ELSE /\ store' = removeItem(store, SessionKey)
         /\ crashed' = FALSE

\* the render that follows a handler's state updates, and the effects after it
commit(op, c, on) ==
    /\ current' = c
    /\ saveToLocal' = on
    /\ persistSession(on, c)
    /\ autoSave' = [autoSave EXCEPT !.sessionStateRef = sessionData(c)]
    /\ lastOp' = Op(op, NoId, TRUE)
    /\ UNCHANGED <<savedSessions, error, isProcessing, isOpen, saveName, saveGroup,
                   importTask>>
    /\ UNCHANGED zipVars

\* a step of a handler that changes none of the effect's dependencies
noRender(op) ==
    /\ lastOp' = Op(op, NoId, TRUE)
    /\ UNCHANGED <<store, savedSessions, error, isProcessing, isOpen, saveName, saveGroup,
                   current, importTask, saveToLocal, crashed, autoSave>>
    /\ UNCHANGED zipVars

\* the clock advances by a millisecond
Tick ==
    /\ ~crashed
    /\ now < MaxClock
    /\ now' = now + 1
    /\ UNCHANGED <<libVars, appVars>>
    /\ UNCHANGED zipVars

\* Settings: the Storage toggle
ToggleSaveToLocal ==
    /\ ~crashed
    /\ commit("setSaveToLocal", current, ~saveToLocal)
    /\ UNCHANGED <<now, pending>>

handleClearSession ==
    /\ ~crashed
    /\ commit("handleClearSession",
              [current EXCEPT !.whiteboards = <<>>, !.chatHistory = <<>>,
                              !.playgrounds = <<>>],
              saveToLocal)
    /\ UNCHANGED <<now, pending>>

chatEntry(id, role, content, t) ==
    [id |-> id, role |-> role, content |-> content, timestamp |-> t]

\* entries the suspended handlers will still add to the chat
chatReserved ==
    (IF pending.send # <<>> THEN 1 ELSE 0) + (IF pending.refine THEN 2 ELSE 0)

\* ChatBot.handleSend up to its await: the question is shown, the reply is awaited
handleSendStart ==
    /\ ~crashed
    /\ pending.send = <<>>
    /\ Len(current.chatHistory) + chatReserved + 2 <= MaxChat
    /\ LET userMsg == chatEntry(toStringNat(now), "user", "question", now)
           newHistory == Append(current.chatHistory, userMsg)
       IN  /\ pending' = [pending EXCEPT !.send = <<newHistory>>]
           /\ commit("handleSend", [current EXCEPT !.chatHistory = newHistory],
                     saveToLocal)
    /\ UNCHANGED now

\* ChatBot.handleSend after its await: the reply, or the error message, follows the
\* history the handler built before the await
handleSendResume(ok) ==
    /\ ~crashed
    /\ pending.send # <<>>
    /\ LET newHistory == pending.send[1]
           botMsg == chatEntry(toStringNat(now + 1), "model",
                               IF ok THEN "reply"
                               ELSE "Error: Could not connect to AI. Please check your API Key.",
                               now)
       IN  commit("handleSend",
                  [current EXCEPT !.chatHistory = Append(newHistory, botMsg)],
                  saveToLocal)
    /\ pending' = [pending EXCEPT !.send = <<>>]
    /\ UNCHANGED now

\* handleWhiteboardRefine up to its await, from the refine box of a whiteboard
handleWhiteboardRefineStart ==
    /\ ~crashed
    /\ current.whiteboards # <<>>
    /\ ~pending.refine
    /\ Len(current.chatHistory) + chatReserved + 2 <= MaxChat
    /\ pending' = [pending EXCEPT !.refine = TRUE]
    /\ noRender("handleWhiteboardRefine")
    /\ UNCHANGED now

\* handleWhiteboardRefine after its await: the image-analysis exchange is appended
handleWhiteboardRefineResume(ok) ==
    /\ ~crashed
    /\ pending.refine
    /\ pending' = [pending EXCEPT !.refine = FALSE]
    /\ IF ok
       THEN commit("handleWhiteboardRefine",
                   [current EXCEPT !.chatHistory =
                        @ \o <<chatEntry(toStringNat(now), "user",
                                         "[Image Analysis]: prompt", now),
                               chatEntry(toStringNat(now + 1), "model", "analysis", now)>>],
                   saveToLocal)
       ELSE noRender("handleWhiteboardRefine")
    /\ UNCHANGED now

\* the random parts of the whiteboard ids built at this clock value
wbRandsInUse ==
    {r \in 1..MaxRand :
        \E i \in 1..Len(current.whiteboards) :
            current.whiteboards[i].id = toStringNat(now) \o randomString(r)}

\* handleGenerate after generateWhiteboardBatch returned a batch: one whiteboard per
\* item, the batch reversed in front of the whiteboards already there
handleGenerate(rs) ==
    /\ ~crashed
    /\ Len(current.whiteboards) + Len(rs) <= MaxAppWb
    /\ LET batchResults == <<<<"a">>, <<"b">>>>
           newWhiteboards ==
               [i \in 1..Len(rs) |->
                   [id |-> toStringNat(now) \o randomString(rs[i]),
                    topic |-> batchResults[i], svgContent |-> "<svg>A</svg>",
                    explanation |-> "about A", timestamp |-> now]]
           reversed == [i \in 1..Len(rs) |-> newWhiteboards[Len(rs) + 1 - i]]
       IN  commit("handleGenerate",
                  [current EXCEPT !.whiteboards = reversed \o @], saveToLocal)
    /\ UNCHANGED <<now, pending>>

PlaygroundPrefix == <<"P","l","a","y","g","r","o","u","n","d",":"," ">>
TestPrefix == <<"T","e","s","t",":"," ">>

\* prev.map(p => p.id === id ? ready : p)
mapReady(pgs, id, ready) ==
    [i \in 1..Len(pgs) |-> IF pgs[i].id = id THEN ready ELSE pgs[i]]

\* prev.map(p => p.id === id ? { ...p, status } : p)
mapStatus(pgs, id, status) ==
    [i \in 1..Len(pgs) |-> IF pgs[i].id = id THEN [pgs[i] EXCEPT !.status = status]
                           ELSE pgs[i]]

\* prev.filter(p => p.id !== id)
RECURSIVE filterOutId(_, _)
filterOutId(pgs, id) ==
    IF pgs = <<>> THEN <<>>
    ELSE IF Head(pgs).id = id THEN filterOutId(Tail(pgs), id)
         ELSE <<Head(pgs)>> \o filterOutId(Tail(pgs), id)

placeholder(tempId, description, type, relatedTopic, t) ==
    [id |-> tempId, html |-> "", description |-> description, timestamp |-> t,
     status |-> "loading", type |-> type, relatedTopic |-> relatedTopic]

\* { ...codeData, status: 'ready', id, type: 'practice' }, codeData from generatePlayground
readyPractice(id, topic, t) ==
    [id |-> id, html |-> "<h1>app</h1>", description |-> PlaygroundPrefix \o topic,
     timestamp |-> t, status |-> "ready", type |-> "practice", relatedTopic |-> <<>>]

\* { ...testApp, status: 'ready', id, type: 'test', relatedTopic }
readyTest(id, topic, t) ==
    [id |-> id, html |-> "<h1>test</h1>", description |-> <<"L","e","v","e","l"," ">> \o TestPrefix \o topic,
     timestamp |-> t, status |-> "ready", type |-> "test", relatedTopic |-> topic]

\* handleLaunchPlayground up to its await: a practice playground of the topic is shown
\* if there is one, else a placeholder is appended under the clock's digits
handleLaunchPlaygroundStart(topic) ==
    /\ ~crashed
    /\ \A i \in 1..Len(current.playgrounds) :
          ~(/\ includes(current.playgrounds[i].description, topic)
            /\ current.playgrounds[i].type = "practice")       \* no `existing`
    /\ Len(current.playgrounds) < MaxAppPg
    /\ LET tempId == toStringNat(now)
       IN  /\ commit("handleLaunchPlayground",
                     [current EXCEPT !.playgrounds =
                          Append(@, placeholder(tempId, topic, "practice", <<>>, now))],
                     saveToLocal)
           /\ pending' = [pending EXCEPT !.builds =
                              @ \cup {[op |-> "handleLaunchPlayground", id |-> tempId,
                                       topic |-> topic]}]
    /\ UNCHANGED now

\* handleLaunchPlayground and handleRetryPlayground after generatePlayground settled
practiceResume(h, ok) ==
    /\ ~crashed
    /\ h \in pending.builds
    /\ h.op \in {"handleLaunchPlayground", "handleRetryPlayground"}
    /\ commit(h.op,
              [current EXCEPT !.playgrounds =
                   IF ok THEN mapReady(@, h.id, readyPractice(h.id, h.topic, now))
                   ELSE mapStatus(@, h.id, "error")],
              saveToLocal)
    /\ pending' = [pending EXCEPT !.builds = @ \ {h}]
    /\ UNCHANGED now

\* the state updates of handleCreateLevelTest up to its first await, after the
\* updates the caller queued: a placeholder is appended under the clock's digits
createLevelTestStart(op, pgs, topic) ==
    LET tempId == toStringNat(now)
    IN  /\ commit(op,
                  [current EXCEPT !.playgrounds =
                       Append(pgs, placeholder(tempId, TestPrefix \o topic, "test",
                                               topic, now))],
                  saveToLocal)
        /\ pending' = [pending EXCEPT
                          !.generatingTest = TRUE,
                          !.builds = @ \cup {[op |-> "handleCreateLevelTest", id |-> tempId,
                                              topic |-> topic]}]

\* handleCreateLevelTest, from the Level Test tab
handleCreateLevelTestStart(topic) ==
    /\ ~crashed
    /\ ~pending.generatingTest
    /\ Len(current.playgrounds) < MaxAppPg
    /\ createLevelTestStart("handleCreateLevelTest", current.playgrounds, topic)
    /\ UNCHANGED now

\* handleCreateLevelTest after the syllabi, the quiz and the test app settled
handleCreateLevelTestResume(h, ok) ==
    /\ ~crashed
    /\ h \in pending.builds
    /\ h.op = "handleCreateLevelTest"
    /\ commit(h.op,
              [current EXCEPT !.playgrounds =
                   IF ok THEN mapReady(@, h.id, readyTest(h.id, h.topic, now))
                   ELSE mapStatus(@, h.id, "error")],
              saveToLocal)
    /\ pending' = [pending EXCEPT !.generatingTest = FALSE, !.builds = @ \ {h}]
    /\ UNCHANGED now

\* closePlayground, from the tab's close button
closePlayground(id) ==
    /\ ~crashed
    /\ commit("closePlayground",
              [current EXCEPT !.playgrounds = filterOutId(@, id)], saveToLocal)
    /\ UNCHANGED <<now, pending>>

\* handleRetryPlayground on the active playground, up to its await: a test is closed
\* and built anew, a practice playground is set to loading and generated again
handleRetryPlayground(activePlaygroundId) ==
    /\ ~crashed
    /\ LET found == {i \in 1..Len(current.playgrounds) :
                         current.playgrounds[i].id = activePlaygroundId}
       IN  /\ found # {}
           /\ LET pg == current.playgrounds[SetMin(found)]
              IN  IF pg.type = "test"
                  THEN createLevelTestStart(
                           "handleRetryPlayground",
                           filterOutId(current.playgrounds, pg.id),
                           IF pg.relatedTopic # <<>> THEN pg.relatedTopic
                           ELSE replaceFirst(pg.description, TestPrefix))
                  ELSE /\ commit("handleRetryPlayground",
                                 [current EXCEPT !.playgrounds =
                                      mapStatus(@, pg.id, "loading")],
                                 saveToLocal)
                       /\ pending' = [pending EXCEPT !.builds =
                              @ \cup {[op |-> "handleRetryPlayground", id |-> pg.id,
                                       topic |-> replaceFirst(pg.description,
                                                              PlaygroundPrefix)]}]
    /\ UNCHANGED now

\* the App after its first render, the Storage toggle off and the library empty
AppInit ==
    /\ now = 1
    /\ current = EmptyBundle
    /\ LibInit
    /\ ZipIdle

\* the chat: questions to the model and image analyses of a whiteboard
ChatNext ==
    \/ Tick
    \/ handleClearSession
    \/ handleSendStart
    \/ \E ok \in BOOLEAN : handleSendResume(ok)
    \/ handleWhiteboardRefineStart
    \/ \E ok \in BOOLEAN : handleWhiteboardRefineResume(ok)
    \/ \E n \in 1..2 : \E rs \in OutcomeSeqs(wbRandsInUse, n) : handleGenerate(rs)

SpecChat == AppInit /\ [][ChatNext]_vars

\* the playgrounds of the session
PlaygroundNext ==
    \/ Tick
    \/ \E topic \in {<<"a">>} : handleLaunchPlaygroundStart(topic)
    \/ \E topic \in {<<"a">>} : handleCreateLevelTestStart(topic)
    \/ \E h \in pending.builds, ok \in BOOLEAN : practiceResume(h, ok)
    \/ \E h \in pending.builds, ok \in BOOLEAN : handleCreateLevelTestResume(h, ok)
    \/ \E id \in IdsOf(current.playgrounds) : closePlayground(id)
    \/ \E id \in IdsOf(current.playgrounds) : handleRetryPlayground(id)
    \/ handleClearSession

SpecPlaygrounds == AppInit /\ [][PlaygroundNext]_vars

\* the Storage toggle, next to the session library that shares localStorage with it;
\* the library is unmounted with the App
StorageNext ==
    \/ ToggleSaveToLocal
    \/ handleClearSession
    \/ \E n \in 1..2 : \E rs \in OutcomeSeqs(wbRandsInUse, n) : handleGenerate(rs)
    \/ ~crashed /\ OpenSessionManager
    \/ ~crashed /\ TypeSaveName
    \/ ~crashed /\ \E r \in Outcomes(randsInUse) : saveToLibrary(r)

SpecStorage == AppInit /\ [][StorageNext]_vars

-----------------------------------------------------------------------------
(* The auto-save of the App: a folder handle, a base name, an interval, a timer *)

\* the tag the constants module exports; it ends every auto-save file name
AUTO_SAVE_TAG == <<"A","U","T","O">>

\* const pad = (n) => n.toString().padStart(2, '0')
pad(n) == IF n < 10 THEN <<"0">> \o toStringNat(n) ELSE toStringNat(n)

\* `${autoSaveName}_${dateStr}_${AUTO_SAVE_TAG}.json`, the date reduced to its seconds
autoSaveFilename(autoSaveName, t) ==
    autoSaveName \o <<"_">> \o pad(t) \o <<"_">> \o AUTO_SAVE_TAG
                 \o <<".","j","s","o","n">>

\* JSON.stringify({ ...currentData, timestamp }, null, 2)
autoSaveDoc(currentData, timestamp) ==
    JSONstringify([whiteboards |-> currentData.whiteboards,
                   chatHistory |-> currentData.chatHistory,
                   playgrounds |-> currentData.playgrounds,
                   theme |-> currentData.theme, model |-> currentData.model,
                   timestamp |-> timestamp])

\* faulty variant of the timer effect: no cleanup, and the timer of the ref is left running
timerEffectNoClear(a, handle, interval, name) ==
    LET rendered == [a EXCEPT !.handle = handle, !.interval = interval, !.name = name]
    IN  IF handle = a.handle /\ interval = a.interval THEN rendered
        ELSE IF handle = 0 THEN rendered
        ELSE [rendered EXCEPT
                !.timers = @ \cup {[id |-> a.created + 1,
                                    period |-> interval * 60 * 1000,
                                    autoSaveHandle |-> handle, autoSaveName |-> name]},
                !.timerRef = a.created + 1,
                !.created = a.created + 1]

\* a render with the given handle, interval and name, and the timer effect after it: with
\* [autoSaveHandle, autoSaveInterval] unchanged the effect does not run; otherwise the
\* cleanup of the previous run clears the timer of the ref, and the body starts a timer
\* whose callback is the performAutoSave of this render
timerEffect(a, handle, interval, name) ==
    LET rendered == [a EXCEPT !.handle = handle, !.interval = interval, !.name = name]
        cleared == {t \in a.timers : t.id # a.timerRef}
    IN  IF handle = a.handle /\ interval = a.interval THEN rendered
        ELSE IF handle = 0 THEN [rendered EXCEPT !.timers = cleared]
        ELSE [rendered EXCEPT
                !.timers = cleared \cup {[id |-> a.created + 1,
                                          period |-> interval * 60 * 1000,
                                          autoSaveHandle |-> handle, autoSaveName |-> name]},
                !.timerRef = a.created + 1,
                !.created = a.created + 1]

\* what a step of the auto-save leaves alone
autoSaveStep(op, a) ==
    /\ ~crashed
    /\ autoSave.mounted
    /\ autoSave' = a
    /\ lastOp' = Op(op, NoId, TRUE)
    /\ UNCHANGED <<now, store, savedSessions, error, isProcessing, isOpen, saveName,
                   saveGroup, current, importTask, saveToLocal, pending, crashed>>
    /\ UNCHANGED zipVars

\* the mount effect: the handle kept in IndexedDB, none (0) included, and its permission
restoreAutoSaveHandle(handle, granted) ==
    /\ autoSave.restoring
    /\ autoSave.created < MaxTimers
    /\ LET a == [autoSave EXCEPT !.restoring = FALSE]
       IN  IF handle = 0 THEN autoSaveStep("restoreAutoSaveHandle", a)
           ELSE IF granted
           THEN autoSaveStep("restoreAutoSaveHandle",
                             timerEffect(a, handle, a.interval, a.name))
           ELSE autoSaveStep("restoreAutoSaveHandle",
                             [a EXCEPT !.pendingResumeHandle = handle])

\* the "Resume" button: requestPermission on the pending handle
handleResumeAutoSave(granted) ==
    /\ autoSave.pendingResumeHandle # 0
    /\ autoSave.created < MaxTimers
    /\ IF granted
       THEN autoSaveStep("handleResumeAutoSave",
                         timerEffect([autoSave EXCEPT !.pendingResumeHandle = 0],
                                     autoSave.pendingResumeHandle,
                                     autoSave.interval, autoSave.name))
       ELSE autoSaveStep("handleResumeAutoSave", autoSave)

\* onConfigureAutoSave: the folder picked in the session manager, with its minutes and name
onConfigureAutoSave(handle, interval, name) ==
    /\ autoSave.created < MaxTimers
    /\ handle # autoSave.handle            \* the picker returns a new handle object
    /\ autoSaveStep("onConfigureAutoSave", timerEffect(autoSave, handle, interval, name))

\* handleUpdateAutoSaveSettings: setAutoSaveInterval(interval); setAutoSaveName(name)
handleUpdateAutoSaveSettings(interval, name) ==
    /\ autoSave.created < MaxTimers
    /\ autoSaveStep("handleUpdateAutoSaveSettings",
                    timerEffect(autoSave, autoSave.handle, interval, name))

\* a timer fires: performAutoSave as the render that started the timer defined it, reading
\* the session from the ref; ok is whether saveToDirectory wrote the file
performAutoSave(t, ok) ==
    /\ ~crashed
    /\ autoSave.mounted
    /\ t \in autoSave.timers
    /\ t.autoSaveHandle # 0
    /\ autoSave' = [autoSave EXCEPT
                      !.written = IF ok
                                  THEN <<[handle |-> t.autoSaveHandle,
                                          filename |-> autoSaveFilename(t.autoSaveName, now),
                                          data |-> autoSaveDoc(autoSave.sessionStateRef, now)]>>
                                  ELSE @]
    /\ lastOp' = Op("performAutoSave", NoId, ok)
    /\ UNCHANGED <<now, store, savedSessions, error, isProcessing, isOpen, saveName,
                   saveGroup, current, importTask, saveToLocal, pending, crashed>>
    /\ UNCHANGED zipVars

\* the App unmounts: the cleanup of the timer effect runs
Unmount ==
    autoSaveStep("unmount",
                 [autoSave EXCEPT !.mounted = FALSE,
                                  !.timers = {t \in @ : t.id # autoSave.timerRef}])

AutoSaveHandles == 1..2
AutoSaveIntervals == {1, 5}
AutoSaveNames == {NoAutoSave.name, <<"w","e","e","k">>}

AutoSaveNext ==
    \/ Tick
    \/ autoSave.mounted /\ handleClearSession
    \/ autoSave.mounted /\ \E rs \in OutcomeSeqs(wbRandsInUse, 1) : handleGenerate(rs)
    \/ \E handle \in {0} \cup AutoSaveHandles : \E granted \in BOOLEAN :
          restoreAutoSaveHandle(handle, granted)
    \/ \E granted \in BOOLEAN : handleResumeAutoSave(granted)
    \/ \E handle \in AutoSaveHandles : \E interval \in AutoSaveIntervals :
          \E name \in AutoSaveNames : onConfigureAutoSave(handle, interval, name)
    \/ \E interval \in AutoSaveIntervals : \E name \in AutoSaveNames :
          handleUpdateAutoSaveSettings(interval, name)
    \/ \E t \in autoSave.timers : \E ok \in BOOLEAN : performAutoSave(t, ok)
    \/ Unmount

SpecAutoSave == AppInit /\ [][AutoSaveNext]_vars

-----------------------------------------------------------------------------
(* handleGenerate step by step: the analysis, then one batch per chunk of topics *)

\* const CHUNK_SIZE = 4
CHUNK_SIZE == 4

\* topics the suspended invocations other than h will still turn into whiteboards
RECURSIVE topicsAhead(_)
topicsAhead(hs) ==
    IF hs = {} THEN 0
    ELSE LET h == CHOOSE x \in hs : TRUE
         IN  (IF h.analyzed THEN Len(h.topics) - h.i ELSE 1) + topicsAhead(hs \ {h})

\* faulty variant: the batch in front of the whiteboards in request order
prependBatchInOrder(newWhiteboards, prev) == newWhiteboards \o prev

\* setWhiteboards(prev => [...newWhiteboards.reverse(), ...prev])
prependBatch(newWhiteboards, prev) ==
    [i \in 1..Len(newWhiteboards) |-> newWhiteboards[Len(newWhiteboards) + 1 - i]] \o prev

\* the handler up to `await analyzeTopic`: the "Create Lesson" button (no override, and
\* disabled while isGenerating) or an import button of the syllabus tab (an override)
handleGenerateStart(topicOverride, topicToUse) ==
    /\ ~crashed
    /\ topicOverride \/ ~pending.isGenerating
    /\ Len(current.whiteboards) + topicsAhead(pending.generating) < MaxGenWb
    /\ \E inv \in 1..MaxInFlight :
          /\ \A h \in pending.generating : h.inv # inv
          /\ \A k \in 1..(inv - 1) : \E h \in pending.generating : h.inv = k
          /\ pending' = [pending EXCEPT
                           !.isGenerating = TRUE,
                           !.generating = @ \cup {[inv |-> inv,
                                                   topicOverride |-> topicOverride,
                                                   topicToUse |-> topicToUse,
                                                   whiteboards |-> current.whiteboards,
                                                   analyzed |-> FALSE,
                                                   topics |-> <<>>, i |-> 0]}]
    /\ noRender("handleGenerateStart")
    /\ UNCHANGED now

\* the handler leaves through catch and finally, or through finally alone
generateFinally(h, ok) ==
    /\ pending' = [pending EXCEPT !.isGenerating = FALSE, !.generating = @ \ {h}]
    /\ lastOp' = Op("handleGenerateEnd", NoId, ok)
    /\ UNCHANGED <<store, savedSessions, error, isProcessing, isOpen, saveName, saveGroup,
                   current, importTask, saveToLocal, crashed, autoSave, now>>
    /\ UNCHANGED zipVars

\* analyzeTopic settled: by an exception, or with the topics to cover
analyzeTopicResume(h, topics, ok) ==
    /\ ~crashed
    /\ h \in pending.generating
    /\ ~h.analyzed
    /\ IF ~ok \/ topics = <<>> THEN generateFinally(h, ok)
       ELSE /\ Len(current.whiteboards) + topicsAhead(pending.generating \ {h})
                  + Len(topics) <= MaxGenWb
            /\ pending' = [pending EXCEPT
                             !.generating = (@ \ {h}) \cup
                                  {[h EXCEPT !.analyzed = TRUE, !.topics = topics]}]
            /\ noRender("analyzeTopic")
            /\ UNCHANGED now

\* generateWhiteboardBatch settled for the chunk at i: by an exception, or with one item
\* per topic of the chunk in request order; after the last chunk the handler runs on
\* to its finally
generateWhiteboardBatchResume(h, rs, ok) ==
    /\ ~crashed
    /\ h \in pending.generating
    /\ h.analyzed
    /\ IF ~ok THEN generateFinally(h, FALSE)
       ELSE LET chunk == SubSeq(h.topics, h.i + 1, Min(h.i + CHUNK_SIZE, Len(h.topics)))
                newWhiteboards ==
                    [k \in 1..Len(chunk) |->
                        [id |-> toStringNat(now) \o randomString(rs[k]),
                         topic |-> chunk[k], svgContent |-> "<svg>A</svg>",
                         explanation |-> "about A", timestamp |-> now]]
                last == h.i + CHUNK_SIZE >= Len(h.topics)
            IN  /\ Len(rs) = Len(chunk)
                /\ commit(IF last THEN "handleGenerateEnd" ELSE "generateWhiteboardBatch",
                          [current EXCEPT
                             !.whiteboards = prependBatch(newWhiteboards, @)],
                          saveToLocal)
                /\ pending' =
                     IF last
                     THEN [pending EXCEPT !.isGenerating = FALSE, !.generating = @ \ {h}]
                     ELSE [pending EXCEPT
                             !.generating = (@ \ {h}) \cup
                                  {[h EXCEPT !.i = h.i + CHUNK_SIZE]}]
                /\ UNCHANGED now

\* what analyzeTopic answers: the topic itself, or the topics of an abstract subject
TopicLists == {<<>>, <<<<"a">>>>, <<<<"a">>, <<"b">>, <<"c">>, <<"d">>, <<"e">>>>}

\* lessons asked for from the classroom input and from the syllabus tab, and a clear
GenerateNext ==
    \/ Tick
    \/ handleClearSession
    \/ /\ Len(current.whiteboards) + topicsAhead(pending.generating) < MaxAppWb
       /\ \E topicOverride \in BOOLEAN : handleGenerateStart(topicOverride, <<"a">>)
    \/ \E h \in pending.generating : \E topics \in {<<>>, <<<<"a">>>>} :
          \E ok \in BOOLEAN : analyzeTopicResume(h, topics, ok)
    \/ \E h \in pending.generating : \E n \in 1..CHUNK_SIZE :
          \E rs \in OutcomeSeqs(wbRandsInUse, n) : \E ok \in BOOLEAN :
              generateWhiteboardBatchResume(h, rs, ok)

SpecGenerate == AppInit /\ [][GenerateNext]_vars

\* lessons asked for from the classroom input alone: one invocation at a time
LessonNext ==
    \/ Tick
    \/ handleGenerateStart(FALSE, <<"a">>)
    \/ \E h \in pending.generating : \E topics \in TopicLists : \E ok \in BOOLEAN :
          analyzeTopicResume(h, topics, ok)
    \/ \E h \in pending.generating : \E n \in 1..CHUNK_SIZE :
          \E rs \in OutcomeSeqs(wbRandsInUse, n) : \E ok \in BOOLEAN :
              generateWhiteboardBatchResume(h, rs, ok)

SpecLesson == AppInit /\ [][LessonNext]_vars

-----------------------------------------------------------------------------
(* The mount of the App: the stored settings and session, and the effects of the first
   render *)

\* localStorage.getItem(STORAGE_KEYS.SESSION) and JSON.parse of it: nothing when the
\* key is absent or the text is no JSON, as the catch leaves the state alone
loadSession(st) ==
    IF hasItem(st, SessionKey) /\ JSONparse(st[SessionKey]).ok
    THEN <<JSONparse(st[SessionKey]).value>>
    ELSE <<>>

\* faulty variant: the chat of the stored session is not restored
parsedFieldsNoChat(parsed, c) ==
    [c EXCEPT
       !.whiteboards = IF "whiteboards" \in DOMAIN parsed THEN parsed.whiteboards ELSE @,
       !.playgrounds = IF "playgrounds" \in DOMAIN parsed THEN parsed.playgrounds ELSE @]

\* if (parsed.whiteboards) setWhiteboards(parsed.whiteboards), and so for the chat and
\* the playgrounds: an array is truthy, an absent field is not
parsedFields(parsed, c) ==
    [c EXCEPT
       !.whiteboards = IF "whiteboards" \in DOMAIN parsed THEN parsed.whiteboards ELSE @,
       !.chatHistory = IF "chatHistory" \in DOMAIN parsed THEN parsed.chatHistory ELSE @,
       !.playgrounds = IF "playgrounds" \in DOMAIN parsed THEN parsed.playgrounds ELSE @]

\* the effects of the first render, in the order of their declaration: the load effect
\* reads the stored session and schedules the state updates; the persistence effect
\* then runs with the empty lists of the first render
mountEffects ==
    /\ pending.mount = "rendered"
    /\ LET read == IF saveToLocal THEN loadSession(store) ELSE <<>>
       IN  pending' = [pending EXCEPT
                         !.mount = IF read = <<>> THEN "settled" ELSE "loading",
                         !.loaded = read]
    /\ persistSession(saveToLocal, current)
    /\ lastOp' = Op("mountEffects", NoId, TRUE)
    /\ UNCHANGED <<now, savedSessions, error, isProcessing, isOpen, saveName, saveGroup,
                   current, importTask, saveToLocal, autoSave>>
    /\ UNCHANGED zipVars

\* the render the load effect scheduled, and the persistence effect after it
mountRerender ==
    /\ ~crashed
    /\ pending.mount = "loading"
    /\ commit("mount", parsedFields(pending.loaded[1], current), saveToLocal)
    /\ pending' = [pending EXCEPT !.mount = "settled"]
    /\ UNCHANGED now

\* sessions an earlier run of the App may have left in the store
MountSessions ==
    {[EmptyBundle EXCEPT !.whiteboards = wbs, !.playgrounds = pgs, !.chatHistory = ch] :
        wbs \in SeqsUpTo({w \in WhiteboardInputs : w.topic = <<"a">>}, MaxAppWb),
        pgs \in SeqsUpTo({p \in PlaygroundInputs : p.description = <<"p","q">>}, 1),
        ch \in {c.chatHistory : c \in ChatInputs}}

\* the first render: the lists empty, the Storage toggle as the stored settings have it,
\* and with the toggle on the session the persistence effect stored last, if it could
MountInit ==
    /\ now = 1
    /\ current = EmptyBundle
    /\ saveToLocal \in BOOLEAN
    /\ store \in {EmptyStore} \cup
                 {setItem(EmptyStore, SessionKey, sessionDoc(c)).store :
                      c \in IF saveToLocal THEN MountSessions ELSE {}}
    /\ pending = [NoPending EXCEPT !.mount = "rendered"]
    /\ savedSessions = <<>>
    /\ error = NoError
    /\ isProcessing = FALSE
    /\ isOpen = FALSE
    /\ saveName = <<>>
    /\ saveGroup = <<>>
    /\ importTask = Idle
    /\ lastOp = NoOp
    /\ crashed = FALSE
    /\ autoSave = NoAutoSave
    /\ ZipIdle

MountNext ==
    \/ mountEffects
    \/ mountRerender
    \/ pending.mount = "settled" /\ Tick
    \/ pending.mount = "settled" /\ ToggleSaveToLocal
    \/ pending.mount = "settled" /\ handleClearSession
    \/ /\ pending.mount = "settled"
       /\ \E rs \in OutcomeSeqs(wbRandsInUse, 1) : handleGenerate(rs)

SpecMount == MountInit /\ [][MountNext]_vars

-----------------------------------------------------------------------------
(* Properties of the export/import pipeline (SpecZip) *)

SameWhiteboards(got, want) ==
    /\ Len(got) = Len(want)
    /\ \A i \in 1..Len(want) :
          /\ got[i].id = want[i].id
          /\ got[i].topic = want[i].topic
          /\ got[i].explanation = want[i].explanation
          /\ got[i].timestamp = want[i].timestamp
          /\ got[i].svgContent = want[i].svgContent

SamePlaygroundContent(got, want) ==
    /\ Len(got) = Len(want)
    /\ \A i \in 1..Len(want) :
          /\ got[i].id = want[i].id
          /\ got[i].description = want[i].description
          /\ got[i].timestamp = want[i].timestamp
          /\ got[i].html = want[i].html

SamePlaygrounds(got, want) ==
    /\ SamePlaygroundContent(got, want)
    /\ \A i \in 1..Len(want) : got[i].type = want[i].type

\* a session exported alone and imported from the untouched archive
RoundTripDone == phase = "imported" /\ exportKind = "single" /\ damage = 0

\* C1: exporting a session alone and extracting it at the root path "" gives back the
\* same whiteboards (id, topic, explanation, timestamp, svgContent), the same
\* playgrounds (id, description, timestamp, html, kind), chat history, theme and model.
C1_RoundTrip ==
    RoundTripDone =>
        /\ ~results.thrown
        /\ Len(results.sessions) = 1
        /\ SameWhiteboards(results.sessions[1].whiteboards, sessions[1].whiteboards)
        /\ SamePlaygrounds(results.sessions[1].playgrounds, sessions[1].playgrounds)
        /\ results.sessions[1].chatHistory = sessions[1].chatHistory
        /\ results.sessions[1].theme = sessions[1].theme
        /\ results.sessions[1].model = sessions[1].model

\* the root directory of the k-th session of an exported collection
rootOf(s) == forceTrailingSlash(collectionPath(s))

\* the content files a session of a collection refers to in the archive
contentFilesOf(s) ==
    {rootOf(s) \o WhiteboardsDir \o <<"/">> \o wbFileName(s.whiteboards[i]) :
        i \in 1..Len(s.whiteboards)}
    \cup
    {rootOf(s) \o PlaygroundsDir \o <<"/">> \o pgFileName(s.playgrounds[i]) :
        i \in 1..Len(s.playgrounds)}

\* no two records of the session are written to the same file
DistinctFileNames(s) ==
    /\ \A i, j \in 1..Len(s.whiteboards) :
          i # j => wbFileName(s.whiteboards[i]) # wbFileName(s.whiteboards[j])
    /\ \A i, j \in 1..Len(s.playgrounds) :
          i # j => pgFileName(s.playgrounds[i]) # pgFileName(s.playgrounds[j])

\* every session comes back, in order, with its own content, and shares no content file
Isolated ==
    /\ ~results.thrown
    /\ Len(results.sessions) = Len(sessions)
    /\ \A k \in 1..Len(sessions) :
          /\ SameWhiteboards(results.sessions[k].whiteboards, sessions[k].whiteboards)
          /\ SamePlaygroundContent(results.sessions[k].playgrounds, sessions[k].playgrounds)
    /\ \A k, l \in 1..Len(sessions) :
          k # l => contentFilesOf(sessions[k]) \cap contentFilesOf(sessions[l]) = {}

CollectionDone == phase = "imported" /\ exportKind = "collection" /\ damage = 0

\* C6: two sessions with distinct names, exported as a collection and
\* imported, come back as exactly two sessions with their own content and no shared file.
C6_IsolationDistinctNames ==
    (CollectionDone /\ Len(sessions) = 2 /\ sessions[1].name # sessions[2].name)
        => Isolated

\* The isolation the export does give: sessions whose sanitized group/name folders are pairwise distinct, none
\* of which writes two of its own records to one file name, come back one for one with
\* their own whiteboard and playground content, and share no content file.
C6_IsolationDistinctRoots ==
    (/\ CollectionDone
     /\ \A k, l \in 1..Len(sessions) :
           k # l => collectionPath(sessions[k]) # collectionPath(sessions[l])
     /\ \A k \in 1..Len(sessions) : DistinctFileNames(sessions[k]))
        => Isolated

C6_Witness ==
    /\ CollectionDone
    /\ Len(sessions) = 2
    /\ sessions[1].name = sessions[2].name
    /\ sessions[1].group # sessions[2].group
    /\ sessions[1].whiteboards # sessions[2].whiteboards
    /\ wbFileName(sessions[1].whiteboards[1]) = wbFileName(sessions[2].whiteboards[1])
    /\ DistinctFileNames(sessions[1]) /\ DistinctFileNames(sessions[2])
    /\ Len(results.sessions) = 2

\* the manifests the import discovers in the archive, and those that are JSON documents
discoveredPaths == manifestPathsOf(archive.files)

entryOf(path) == archive.files[EntryIndex(archive.files, path)]

IsParseable(path) == entryOf(path).data.kind = "json"

parseablePaths == SelectSeq(discoveredPaths, IsParseable)

ImportDone == phase = "imported" /\ archive.isZip /\ Len(discoveredPaths) >= 1

\* C7: with n >= 1 manifests discovered, f of them unparseable, the import does not
\* throw and returns exactly n - f sessions: one for each manifest that parses, in the
\* order of discovery, under the name and group of that manifest's folder.
C7_PartialFailure ==
    ImportDone =>
        /\ ~results.thrown
        /\ Len(results.sessions) =
              Len(discoveredPaths)
              - Cardinality({i \in 1..Len(discoveredPaths) : ~IsParseable(discoveredPaths[i])})
        /\ Len(results.sessions) = Len(parseablePaths)
        /\ \A k \in 1..Len(parseablePaths) :
              LET root == replaceFirst(parseablePaths[k], ManifestName)
              IN  /\ results.sessions[k].name = nameAndGroup(root, archive.name).name
                  /\ results.sessions[k].group = nameAndGroup(root, archive.name).group

\* a corrupt manifest is discovered before a sound one, and the sound one is returned
C7_Witness ==
    /\ ImportDone
    /\ Len(discoveredPaths) = 2
    /\ ~IsParseable(discoveredPaths[1])
    /\ IsParseable(discoveredPaths[2])
    /\ Len(results.sessions) = 1

\* the archive holds a file (not a directory) at this path
FilePresent(path) ==
    \E j \in 1..Len(archive.files) : archive.files[j].name = path /\ ~archive.files[j].dir

fileText(path) == entryOf(path).data.value

\* C10: a manifest entry whose file is absent from the archive does not fail the
\* session: the record comes back with empty content and its id and metadata, and
\* every record whose file is present carries the text of its own file.
C10_GracefulDegradation ==
    (phase = "imported" /\ ~results.thrown) =>
        /\ Len(results.sessions) = Len(parseablePaths)
        /\ \A k \in 1..Len(parseablePaths) :
              LET root == replaceFirst(parseablePaths[k], ManifestName)
                  m == entryOf(parseablePaths[k]).data.value
                  got == results.sessions[k]
              IN  /\ Len(got.whiteboards) = Len(m.whiteboards)
                  /\ Len(got.playgrounds) = Len(m.playgrounds)
                  /\ \A i \in 1..Len(m.whiteboards) :
                        /\ got.whiteboards[i].id = m.whiteboards[i].id
                        /\ got.whiteboards[i].topic = m.whiteboards[i].topic
                        /\ got.whiteboards[i].explanation = m.whiteboards[i].explanation
                        /\ got.whiteboards[i].timestamp = m.whiteboards[i].timestamp
                        /\ got.whiteboards[i].svgContent =
                              IF FilePresent(root \o m.whiteboards[i].filePath)
                              THEN fileText(root \o m.whiteboards[i].filePath)
                              ELSE ""
                  /\ \A i \in 1..Len(m.playgrounds) :
                        /\ got.playgrounds[i].id = m.playgrounds[i].id
                        /\ got.playgrounds[i].description = m.playgrounds[i].description
                        /\ got.playgrounds[i].timestamp = m.playgrounds[i].timestamp
                        /\ got.playgrounds[i].html =
                              IF FilePresent(root \o m.playgrounds[i].filePath)
                              THEN fileText(root \o m.playgrounds[i].filePath)
                              ELSE ""

\* a session comes back with one whiteboard emptied by a deleted file and another intact
C10_Witness ==
    /\ phase = "imported"
    /\ ~results.thrown
    /\ \E k \in 1..Len(parseablePaths) :
          LET root == replaceFirst(parseablePaths[k], ManifestName)
              m == entryOf(parseablePaths[k]).data.value
          IN  /\ Len(m.whiteboards) = 2
              /\ ~FilePresent(root \o m.whiteboards[1].filePath)
              /\ FilePresent(root \o m.whiteboards[2].filePath)
              /\ results.sessions[k].whiteboards[1].svgContent = ""
              /\ results.sessions[k].whiteboards[2].svgContent # ""

-----------------------------------------------------------------------------
(* Properties of the session library (Spec) *)

\* C2: in every reachable state, every id the stored index lists has a payload
\* stored under the data key of that id.
C2_IndexPayloadLockstep ==
    \A id \in IdsOf(storedIndex(store)) : hasItem(store, DataKey(id))

\* C3: when the store rejects a write of saveToLibrary, the save has not happened:
\* the stored index and the session list are what they were, no payload of the new id
\* stays behind, and the storage-full message is shown.
C3_StorageFullAtomic ==
    (lastOp.op = "save" /\ ~lastOp.ok) =>
        /\ error = StorageFullMsg
        /\ savedSessions = storedIndex(store)
        /\ lastOp.id \notin IdsOf(storedIndex(store))
        /\ ~hasItem(store, DataKey(lastOp.id))

\* C4: a loadFromLibrary of the id that the saveToLibrary just before it created
\* succeeds and hands over the bundle that was saved: the same whiteboards,
\* chatHistory, playgrounds, theme and model (saveToLibrary leaves the App's bundle
\* as it is, so the bundle saved is the one held when the load starts).
C4_SaveThenLoad ==
    [][(/\ lastOp.op = "save"
        /\ lastOp.ok
        /\ lastOp'.op = "load"
        /\ lastOp'.id = lastOp.id)
          => (/\ lastOp'.ok
              /\ error' = error
              /\ ~isOpen'
              /\ current'.whiteboards = current.whiteboards
              /\ current'.chatHistory = current.chatHistory
              /\ current'.playgrounds = current.playgrounds
              /\ current'.theme = current.theme
              /\ current'.model = current.model)]_vars

\* a bundle with conversation and playground has been saved and loaded back at once
C4_Witness ==
    /\ lastOp.op = "load"
    /\ lastOp.afterSave
    /\ lastOp.ok
    /\ current.chatHistory # <<>>
    /\ current.playgrounds # <<>>
    /\ current.whiteboards # <<>>

\* C5: a confirmed deleteFromLibrary(id) leaves no payload of id, no entry of id in
\* the stored index or in any bucket of the grouped index, so that a load of id finds
\* no session data; every other payload and every other index entry is unchanged.
C5_DeletePostcondition ==
    [][(lastOp'.op = "delete") =>
          LET id == lastOp'.id
          IN  /\ ~hasItem(store', DataKey(id))
              /\ id \notin IdsOf(storedIndex(store'))
              /\ \A g \in DOMAIN groupedSessions(savedSessions') :
                    id \notin IdsOf(groupedSessions(savedSessions')[g])
              /\ \A k \in DOMAIN store \ {IndexKey, DataKey(id)} :
                    k \in DOMAIN store' /\ store'[k] = store[k]
              /\ DOMAIN store' \subseteq DOMAIN store \cup {IndexKey}
              /\ storedIndex(store') =
                    SelectSeq(storedIndex(store), LAMBDA e : e.id # id)
              /\ savedSessions' = SelectSeq(savedSessions, LAMBDA e : e.id # id)]_vars

\* an entry has been deleted while another entry and its payload stay in the library
C5_Witness ==
    /\ lastOp.op = "delete"
    /\ lastOp.ok
    /\ ~hasItem(store, DataKey(lastOp.id))
    /\ \E e \in IdsOf(storedIndex(store)) : hasItem(store, DataKey(e))

\* C8: an import of an archive in which no path ends with session_manifest.json
\* fails as a whole: the import-failure message is shown and the store (index and
\* payload keys) and the session list are what they were before.
C8_NoManifest ==
    [][(lastOp'.op = "import" /\ lastOp'.manifests = 0) =>
          (/\ ~lastOp'.ok
           /\ error' = ImportFailedMsg
           /\ store' = store
           /\ savedSessions' = savedSessions)]_vars

\* an archive without manifest has been refused while the library holds a session
C8_Witness ==
    /\ lastOp.op = "import"
    /\ lastOp.manifests = 0
    /\ error = ImportFailedMsg
    /\ storedIndex(store) # <<>>

\* C9: an import of an archive whose manifests all fail extraction shows the
\* import-failure message and adds no session to the library.
C9_NoParseableSession ==
    (lastOp.op = "import" /\ lastOp.manifests >= 1 /\ lastOp.returned = 0) =>
        (~lastOp.ok /\ error = ImportFailedMsg)

\* C11: loadFromLibrary(id) for an id without payload, an id the index still lists
\* included, shows the session-not-found message and changes nothing else: the App's
\* whiteboards, chat, playgrounds, theme and model (onImport is not called), the store,
\* the session list and the open modal stay as they were.
C11_SessionNotFound ==
    [][(lastOp'.op = "load" /\ ~hasItem(store, DataKey(lastOp'.id))) =>
          (/\ ~lastOp'.ok
           /\ error' = NotFoundMsg
           /\ current' = current
           /\ store' = store
           /\ savedSessions' = savedSessions
           /\ isOpen' = isOpen)]_vars

\* a load of an id that the stored index lists and that has no payload was refused
C11_Witness ==
    /\ lastOp.op = "load"
    /\ ~lastOp.ok
    /\ error = NotFoundMsg
    /\ lastOp.id \in IdsOf(storedIndex(store))
    /\ ~hasItem(store, DataKey(lastOp.id))
    /\ isOpen

-----------------------------------------------------------------------------
(* Names, groups and manifests of exported packages (SpecZip) *)

RootsDistinct ==
    \A k, l \in 1..Len(sessions) :
        k # l => collectionPath(sessions[k]) # collectionPath(sessions[l])

\* C13: every session of a library exported with exportCollectionToZip and imported
\* again comes back under the name and the group (or absence of group) it had.
C13_LosslessNameGroup ==
    (CollectionDone /\ RootsDistinct) =>
        /\ ~results.thrown
        /\ Len(results.sessions) = Len(sessions)
        /\ \A k \in 1..Len(sessions) :
              /\ results.sessions[k].name = sessions[k].name
              /\ results.sessions[k].group = sessions[k].group

\* the roots under which the export wrote its sessions
sessionRoots ==
    IF exportKind = "single" THEN {<<>>}
    ELSE {rootOf(sessions[k]) : k \in 1..Len(sessions)}

\* the package as the export produced it
PackageProduced == phase \in {"exported", "imported"} /\ damage = 0

\* C15: in a package as exportSessionToZip or exportCollectionToZip produced it, the
\* manifests are exactly one per session root, each a JSON document of version "1.1",
\* and every whiteboard and playground entry of a manifest has, at its root path
\* followed by its filePath, a file that is in the package under that root.
C15_ManifestReferencesResolve ==
    PackageProduced =>
        /\ {discoveredPaths[i] : i \in 1..Len(discoveredPaths)}
              = {r \o ManifestName : r \in sessionRoots}
        /\ \A r \in sessionRoots :
              /\ Cardinality({j \in 1..Len(archive.files) :
                                 archive.files[j].name = r \o ManifestName}) = 1
              /\ IsParseable(r \o ManifestName)
              /\ LET m == entryOf(r \o ManifestName).data.value
                 IN  /\ m.version = "1.1"
                     /\ \A i \in 1..Len(m.whiteboards) :
                           /\ FilePresent(r \o m.whiteboards[i].filePath)
                           /\ m.whiteboards[i].filePath[1] # "/"
                     /\ \A i \in 1..Len(m.playgrounds) :
                           /\ FilePresent(r \o m.playgrounds[i].filePath)
                           /\ m.playgrounds[i].filePath[1] # "/"

\* a collection of two sessions in two folders, with whiteboards and a playground
C15_Witness ==
    /\ PackageProduced
    /\ exportKind = "collection"
    /\ Cardinality(sessionRoots) = 2
    /\ \E r \in sessionRoots :
          LET m == entryOf(r \o ManifestName).data.value
          IN  /\ Len(m.whiteboards) = 2
              /\ FilePresent(r \o m.whiteboards[2].filePath)
    /\ \E r \in sessionRoots :
          LET m == entryOf(r \o ManifestName).data.value
          IN  /\ Len(m.playgrounds) = 1
              /\ FilePresent(r \o m.playgrounds[1].filePath)

\* the description, in lower case, holds `p` from position i on
HoldsAt(description, p, i) ==
    /\ i + Len(p) - 1 <= Len(description)
    /\ \A j \in 1..Len(p) : toLowerCase(description)[i + j - 1] = p[j]

\* C19: an imported playground is of kind test exactly when its description, letter
\* case ignored, contains "level test" or starts with "test:"; otherwise practice.
C19_KindReconstruction ==
    (phase = "imported" /\ ~results.thrown) =>
        \A k \in 1..Len(parseablePaths) :
            LET m == entryOf(parseablePaths[k]).data.value
                got == results.sessions[k].playgrounds
            IN  \A i \in 1..Len(m.playgrounds) :
                    LET d == m.playgrounds[i].description
                        looksLikeTest ==
                            \/ \E at \in 1..Len(d) :
                                  HoldsAt(d, <<"l","e","v","e","l"," ","t","e","s","t">>, at)
                            \/ HoldsAt(d, <<"t","e","s","t",":">>, 1)
                    IN  /\ got[i].type \in {"test", "practice"}
                        /\ got[i].type = "test" <=> looksLikeTest

\* a playground described "Level Test" was imported as a test
C19_Witness ==
    /\ phase = "imported"
    /\ ~results.thrown
    /\ Len(results.sessions) = 1
    /\ Len(results.sessions[1].playgrounds) = 1
    /\ results.sessions[1].playgrounds[1].description
          = <<"L","e","v","e","l"," ","T","e","s","t">>
    /\ results.sessions[1].playgrounds[1].type = "test"

-----------------------------------------------------------------------------
(* Properties of the import of other archives (SpecArchive) *)

\* the root path of a discovered manifest: the path without the manifest's file name
rootPathOf(path) == SubSeq(path, 1, Len(path) - Len(ManifestName))

\* the segments of a root path, empty ones discarded
segmentsOf(rootPath) == SelectSeq(splitSlash(rootPath), IsNonEmpty)

RECURSIVE totalLen(_)
totalLen(parts) == IF Len(parts) = 0 THEN 0 ELSE Len(Head(parts)) + totalLen(Tail(parts))

IsLegacy(m) == "playgrounds" \notin DOMAIN m /\ "playground" \in DOMAIN m

\* C18: a manifest without playgrounds array and with the singular playground field
\* yields exactly one playground, with a synthetic id and kind practice, whose html is
\* the text of the referenced file, or "" when the package has no such file.
C18_LegacyPlayground ==
    (phase = "imported" /\ ~results.thrown) =>
        \A k \in 1..Len(parseablePaths) :
            LET m == entryOf(parseablePaths[k]).data.value
                root == rootPathOf(parseablePaths[k])
                got == results.sessions[k].playgrounds
            IN  IsLegacy(m) =>
                    /\ Len(got) = 1
                    /\ got[1].id = <<"l","e","g","a","c","y">>
                    /\ got[1].type = "practice"
                    /\ got[1].html = IF FilePresent(root \o m.playground.filePath)
                                     THEN fileText(root \o m.playground.filePath)
                                     ELSE ""

-----------------------------------------------------------------------------
(* Properties of the grouped index (SpecIndex) *)

Alphabet ==
    <<"a","b","c","d","e","f","g","h","i","j","k","l","m","n","o","p","q",
      "r","s","t","u","v","w","x","y","z">>

letterNo(c) == CHOOSE i \in 1..Len(Alphabet) : Alphabet[i] = ToLowerChar(c)

\* label a stands before label b in the dictionary, letter case ignored
AlphabeticallyBefore(a, b) ==
    \E i \in 1..(Len(b)) :
        /\ \A j \in 1..(i - 1) : j <= Len(a) /\ letterNo(a[j]) = letterNo(b[j])
        /\ \/ i = Len(a) + 1
           \/ i <= Len(a) /\ letterNo(a[i]) < letterNo(b[i])

\* the labels shown: the named groups of the entries and "Ungrouped"
ShownLabels ==
    /\ {groupKeys(savedSessions)[i] : i \in 1..Len(groupKeys(savedSessions))}
          = ({savedSessions[i].group : i \in 1..Len(savedSessions)} \ {<<>>})
                \cup {Ungrouped}
    /\ \A i, j \in 1..Len(groupKeys(savedSessions)) :
          i # j => groupKeys(savedSessions)[i] # groupKeys(savedSessions)[j]

\* the named groups stand in alphabetical order and "Ungrouped" stands last
OrderedLabels ==
    LET keys == groupKeys(savedSessions)
    IN  /\ keys[Len(keys)] = Ungrouped
        /\ \A i, j \in 1..(Len(keys) - 1) :
              i < j => AlphabeticallyBefore(keys[i], keys[j])

HasNoGroup(e) == e.group = <<>>

HasNoGroupOrUngrouped(e) == e.group = <<>> \/ e.group = Ungrouped

\* C14: the labels shown are every named group, in alphabetical order, and the
\* "Ungrouped" label, always last, which holds exactly the entries without group.
C14_GroupOrdering ==
    isOpen =>
        /\ ShownLabels
        /\ OrderedLabels
        /\ groupedSessions(savedSessions)[Ungrouped] = SelectSeq(savedSessions, HasNoGroup)

\* C14, amended: the labels shown are every named group, in alphabetical order, and
\* the "Ungrouped" label, always last, which holds the entries without group together
\* with the entries whose group is itself named "Ungrouped".
C14_GroupOrderingAmended ==
    isOpen =>
        /\ ShownLabels
        /\ OrderedLabels
        /\ groupedSessions(savedSessions)[Ungrouped]
              = SelectSeq(savedSessions, HasNoGroupOrUngrouped)

\* the index of the specification's example is shown: Zeta, Alpha and an entry without group
C14_Witness ==
    /\ isOpen
    /\ Len(savedSessions) = 3
    /\ savedSessions[1].group = <<"Z","e","t","a">>
    /\ savedSessions[2].group = <<"A","l","p","h","a">>
    /\ savedSessions[3].group = <<>>
    /\ groupKeys(savedSessions) = <<<<"A","l","p","h","a">>, <<"Z","e","t","a">>, Ungrouped>>


-----------------------------------------------------------------------------
(* Properties of the App's chat (SpecChat) *)

RECURSIVE IsSubsequence(_, _)
\* the entries of a occur in b, in the order they have in a
IsSubsequence(a, b) ==
    IF a = <<>> THEN TRUE
    ELSE IF b = <<>> THEN FALSE
    ELSE IF Head(a) = Head(b) THEN IsSubsequence(Tail(a), Tail(b))
    ELSE IsSubsequence(a, Tail(b))

\* C17: chat history is append-only within a session: whatever handleSend and
\* handleWhiteboardRefine do, and however they interleave, every step other than a
\* session clear leaves each chat entry present and the entries in their order.
C17_ChatAppendOnly ==
    [][lastOp'.op # "handleClearSession"
         => IsSubsequence(current.chatHistory, current'.chatHistory)]_vars

-----------------------------------------------------------------------------
(* Properties of the session's ids (SpecPlaygrounds) *)

\* no two entries of the list carry the same id
DistinctIds(q) == \A i, j \in 1..Len(q) : i # j => q[i].id # q[j].id

\* C16: id uniqueness: whatever handleGenerate, handleLaunchPlayground,
\* handleCreateLevelTest, handleRetryPlayground and the library's saves did, also within
\* one millisecond of the clock, no two playgrounds of the session share an id, no two
\* whiteboards share an id, and no two entries of the library index share an id.
C16_IdUniqueness ==
    /\ DistinctIds(current.playgrounds)
    /\ DistinctIds(current.whiteboards)
    /\ DistinctIds(storedIndex(store))

-----------------------------------------------------------------------------
(* Properties of the stored session (SpecStorage) *)

\* C20: session storage follows the Storage toggle: after the persistence effects have
\* run, whatever toggles and content changes came before, the session key is absent
\* from localStorage when saveToLocal is off, and when saveToLocal is on it holds the
\* serialization of the current whiteboards, chatHistory and playgrounds.
C20_StorageFollowsToggle ==
    IF saveToLocal
    THEN hasItem(store, SessionKey) /\ store[SessionKey] = sessionDoc(current)
    ELSE ~hasItem(store, SessionKey)

-----------------------------------------------------------------------------
(* Properties of the library under a suspended import (Spec) *)

\* C22: saved entries are never lost to a concurrent import: an entry of the stored
\* index leaves it only through deleteFromLibrary of its id; an entry saved while an
\* import is suspended at its await is still in the stored index after the import.
C22_SavedEntriesKept ==
    [][\A id \in IdsOf(storedIndex(store)) :
          \/ id \in IdsOf(storedIndex(store'))
          \/ lastOp'.op = "delete" /\ lastOp'.id = id]_vars

-----------------------------------------------------------------------------
(* Properties of colliding file names (SpecCollision) *)

\* the last record of the list that is written to the file of the i-th
lastWriter(names, i) == CHOOSE j \in 1..Len(names) :
    /\ names[j] = names[i]
    /\ \A k \in 1..Len(names) : names[k] = names[i] => k <= j

\* C23: filename collisions lose content but not records: export followed by import
\* returns as many whiteboards and playgrounds as were exported, in their order, each
\* with its own id, topic or description, and timestamp; a record whose file name
\* another record shares carries the content of the last record of that file name.
C23_CollisionKeepsRecords ==
    (phase = "imported" /\ damage = 0 /\ exportKind = "single") =>
        /\ ~results.thrown
        /\ Len(results.sessions) = 1
        /\ LET got == results.sessions[1]
               want == sessions[1]
               wbNames == [i \in 1..Len(want.whiteboards) |-> wbFileName(want.whiteboards[i])]
               pgNames == [i \in 1..Len(want.playgrounds) |-> pgFileName(want.playgrounds[i])]
           IN  /\ Len(got.whiteboards) = Len(want.whiteboards)
               /\ Len(got.playgrounds) = Len(want.playgrounds)
               /\ \A i \in 1..Len(want.whiteboards) :
                     /\ got.whiteboards[i].id = want.whiteboards[i].id
                     /\ got.whiteboards[i].topic = want.whiteboards[i].topic
                     /\ got.whiteboards[i].timestamp = want.whiteboards[i].timestamp
                     /\ got.whiteboards[i].svgContent =
                            want.whiteboards[lastWriter(wbNames, i)].svgContent
               /\ \A i \in 1..Len(want.playgrounds) :
                     /\ got.playgrounds[i].id = want.playgrounds[i].id
                     /\ got.playgrounds[i].description = want.playgrounds[i].description
                     /\ got.playgrounds[i].timestamp = want.playgrounds[i].timestamp
                     /\ got.playgrounds[i].html =
                            want.playgrounds[lastWriter(pgNames, i)].html

\* an import of a session whose two whiteboards share a file and differ in content,
\* and whose two playgrounds do too
C23_Witness ==
    /\ phase = "imported" /\ damage = 0 /\ exportKind = "single"
    /\ Len(sessions[1].whiteboards) = 2
    /\ Len(sessions[1].playgrounds) = 2
    /\ wbFileName(sessions[1].whiteboards[1]) = wbFileName(sessions[1].whiteboards[2])
    /\ sessions[1].whiteboards[1].svgContent # sessions[1].whiteboards[2].svgContent
    /\ pgFileName(sessions[1].playgrounds[1]) = pgFileName(sessions[1].playgrounds[2])
    /\ sessions[1].playgrounds[1].html # sessions[1].playgrounds[2].html
    /\ results.sessions[1].whiteboards[1].svgContent
           = sessions[1].whiteboards[2].svgContent

-----------------------------------------------------------------------------
(* Properties of the playground generations (SpecPlaygrounds) *)

\* the playgrounds of the session that the generation h is building
placeholdersOf(h) ==
    {i \in 1..Len(current.playgrounds) :
        /\ current.playgrounds[i].id = h.id
        /\ current.playgrounds[i].type =
              (IF h.op = "handleCreateLevelTest" THEN "test" ELSE "practice")}

\* a step keeps the lifecycle: a generation that starts has a playground of its id
\* with status loading; a generation that settles keeps the number and the ids of the
\* playgrounds, leaves its own ready or in error, and changes nothing if it has none
LifecycleStep ==
    /\ \A h \in pending'.builds \ pending.builds :
          \E i \in 1..Len(current'.playgrounds) :
              /\ current'.playgrounds[i].id = h.id
              /\ current'.playgrounds[i].status = "loading"
    /\ \A h \in pending.builds \ pending'.builds :
          /\ Len(current'.playgrounds) = Len(current.playgrounds)
          /\ \A i \in 1..Len(current.playgrounds) :
                 current'.playgrounds[i].id = current.playgrounds[i].id
          /\ \A i \in placeholdersOf(h) :
                 current'.playgrounds[i].status \in {"ready", "error"}
          /\ placeholdersOf(h) = {} => current'.playgrounds = current.playgrounds

\* C26: playground generation lifecycle: a placeholder starts with status loading;
\* when its generation settles it moves to ready or to error and keeps its id; a
\* generation whose playground was closed, or whose session was cleared, while it was
\* pending adds nothing to the playgrounds and changes none when it settles.
C26_GenerationLifecycle == [][LifecycleStep]_vars

-----------------------------------------------------------------------------
(* Properties of the auto-save (SpecAutoSave) *)

\* C24: auto-save uses values current at fire time: every time the timer fires and
\* writes, the file holds the whiteboards, chat, playgrounds, theme and model as they
\* are at that moment, and its name starts with the base name most recently set
\* through handleUpdateAutoSaveSettings, not with the one of the timer's creation.
C24_AutoSaveUsesCurrentValues ==
    (lastOp.op = "performAutoSave" /\ lastOp.ok) =>
        /\ autoSave.written[1].data =
               autoSaveDoc(sessionData(current), autoSave.written[1].data.value.timestamp)
        /\ startsWith(autoSave.written[1].filename, autoSave.name \o <<"_">>)

\* C25: single auto-save timer: at most one interval timer is active; one is active,
\* with period equal to the current autoSaveInterval minutes, whenever a directory
\* handle is set and the App is mounted; none is active without a handle or after
\* unmount.
C25_SingleTimer ==
    /\ Cardinality(autoSave.timers) <= 1
    /\ (autoSave.handle # 0 /\ autoSave.mounted) =>
          \E t \in autoSave.timers : t.period = autoSave.interval * 60 * 1000
    /\ (autoSave.handle = 0 \/ ~autoSave.mounted) => autoSave.timers = {}

\* the interval was changed while a folder was connected: a second timer was started
C25_Witness ==
    /\ autoSave.mounted
    /\ autoSave.handle # 0
    /\ autoSave.created >= 2
    /\ lastOp.op = "handleUpdateAutoSaveSettings"
    /\ autoSave.interval = 1
    /\ Cardinality(autoSave.timers) = 1

-----------------------------------------------------------------------------
(* Properties of the lesson generation (SpecGenerate, SpecLesson) *)

\* C27: the generating flag tracks in-flight work: isGenerating is true whenever at
\* least one handleGenerate invocation has passed its guard and not yet finished, and
\* false when none is in flight, for every interleaving of invocations started from
\* the classroom input and from the syllabus tab.
C27_FlagTracksInFlight == pending.isGenerating <=> pending.generating # {}

\* C28: clear session is final for earlier work: a batch of a handleGenerate invocation
\* that was in flight when handleClearSession ran, arriving as the next operation, is
\* not added to the cleared session: the whiteboard list stays empty.
C28_ClearIsFinal ==
    [][(/\ lastOp.op = "handleClearSession"
        /\ lastOp'.op \in {"generateWhiteboardBatch", "handleGenerateEnd"})
         => current'.whiteboards = <<>>]_vars

\* a call that finishes with every batch delivered leaves tn, ..., t1 in front of the
\* whiteboards of the render it was started in
NewestFirstStep ==
    \A h \in pending.generating :
        ((\A g \in pending'.generating : g.inv # h.inv) /\ lastOp'.ok) =>
            LET n == Len(h.topics)
            IN  /\ Len(current'.whiteboards) = n + Len(h.whiteboards)
                /\ \A k \in 1..n : current'.whiteboards[k].topic = h.topics[n + 1 - k]
                /\ \A k \in 1..Len(h.whiteboards) :
                       current'.whiteboards[n + k] = h.whiteboards[k]

\* C29: newest-first whiteboard order: for a handleGenerate call covering topics
\* t1..tn in chunks of at most 4, each batch returning one whiteboard per topic in
\* request order, the whiteboard list when the call finishes, with no other mutation
\* in between, is tn, ..., t1 followed by the whiteboards present before the call, in
\* their previous order.
C29_NewestFirst == [][NewestFirstStep]_vars

\* a call of five topics, in two chunks, has finished on top of an earlier whiteboard
C29_Witness ==
    /\ lastOp.op = "handleGenerateEnd" /\ lastOp.ok
    /\ pending.generating = {}
    /\ Len(current.whiteboards) = 6
    /\ [k \in 1..6 |-> current.whiteboards[k].topic]
           = <<<<"e">>, <<"d">>, <<"c">>, <<"b">>, <<"a">>, <<"a">>>>

-----------------------------------------------------------------------------
(* Properties of the mount (SpecMount) *)

\* C21: session restore on mount: with saveToLocal on in the stored settings and a
\* session stored, once the mount effects and the re-render they trigger have settled,
\* the in-memory whiteboards, chatHistory and playgrounds equal the stored session and
\* the stored session still equals them; the first run of the persistence effect, on
\* the empty initial state, does not lose the session that was stored.
C21_RestoreOnMount ==
    /\ pending.mount = "loading" => ~crashed
    /\ lastOp.op = "mount" =>
          /\ ~crashed
          /\ pending.mount = "settled"
          /\ current.whiteboards = pending.loaded[1].whiteboards
          /\ current.chatHistory = pending.loaded[1].chatHistory
          /\ current.playgrounds = pending.loaded[1].playgrounds
          /\ hasItem(store, SessionKey)
          /\ store[SessionKey] = sessionDoc(current)
          /\ store[SessionKey] = JSONstringify(pending.loaded[1])

\* a stored session of two whiteboards, a chat and a playground has been restored
C21_Witness ==
    /\ lastOp.op = "mount"
    /\ saveToLocal
    /\ Len(current.whiteboards) = 2
    /\ current.chatHistory # <<>>
    /\ current.playgrounds # <<>>

=============================================================================
